---- MODULE Spec2Model ----
(***************************************************************************)
(* PaperChecker v2: the decision reconciliation engine of script.py and    *)
(* the helpers of paperchecker_utils.py, as a state machine.               *)
(*                                                                         *)
(* JSON values are tagged records: Null, S(string), N(number), M(map).     *)
(* A map is a function from key strings to JSON values, so Python's        *)
(* isinstance(x, dict) is the test x.t = "map".                            *)
(***************************************************************************)
EXTENDS Integers, Sequences, FiniteSets, TLC

\* ------------------------------------------------------------------------
\* Bounds of the model
\* ------------------------------------------------------------------------
NumDocs == 2

\* ------------------------------------------------------------------------
\* Program constants
\* ------------------------------------------------------------------------
VERIFIER_CHUNK_SIZE == 24
NumParallelTasks == 4
ENABLE_PUBMED_LOOKUP == TRUE

\* ------------------------------------------------------------------------
\* JSON values
\* ------------------------------------------------------------------------
Null == [t |-> "null"]
S(s) == [t |-> "str", v |-> s]
N(n) == [t |-> "num", v |-> n]
M(f) == [t |-> "map", kv |-> f]
EmptyMap == M(<<>>)
\* A JSON array: a Python list, as the sequence of its items.
L(items) == [t |-> "list", items |-> items]
\* The floats and booleans that are told apart from the integers by type:
\* F(n, m) is the float n + m/10, B(b) is True or False.
F(n, tenths) == [t |-> "float", v |-> n, tenths |-> tenths]
B(b) == [t |-> "bool", v |-> b]

IsDict(x) == x.t = "map"
IsList(x) == x.t = "list"
IsNone(x) == x.t = "null"

\* Python truthiness of a JSON value (used by `if patch`, `x or default`).
Truthy(x) ==
    CASE x.t = "null" -> FALSE
      [] x.t = "str"  -> x.v # ""
      [] x.t = "num"  -> x.v # 0
      [] x.t = "map"  -> DOMAIN x.kv # {}
      [] x.t = "list" -> x.items # <<>>
      [] OTHER        -> TRUE

\* dict.get(k): the value under k, None when k is absent.
Get(m, k) == IF k \in DOMAIN m.kv THEN m.kv[k] ELSE Null
\* dict.get(k, default)
GetOr(m, k, default) == IF k \in DOMAIN m.kv THEN m.kv[k] ELSE default
\* `x or default`
OrElse(x, default) == IF Truthy(x) THEN x ELSE default
\* d[k] = v on a copy
SetKey(m, k, v) == M((k :> v) @@ m.kv)
\* d.pop(k, None) on a copy
PopKey(m, k) == M([x \in DOMAIN m.kv \ {k} |-> m.kv[x]])

\* ------------------------------------------------------------------------
\* deep_merge (script.py 291-300), on values.  copy.deepcopy is the identity
\* on values; the aliasing it prevents is modelled on the heap further down.
\* ------------------------------------------------------------------------
\* deep_merge testing the arguments for truth (`if not a or not b`) instead
\* of their type: an empty patch replaces the base.
RECURSIVE deep_merge_falsy(_, _)
deep_merge_falsy(a, b) ==
    IF ~IsDict(a) \/ ~IsDict(b) \/ ~Truthy(a) \/ ~Truthy(b) THEN b
    ELSE M([k \in DOMAIN a.kv \cup DOMAIN b.kv |->
              IF k \notin DOMAIN b.kv THEN a.kv[k]
              ELSE IF k \in DOMAIN a.kv /\ IsDict(a.kv[k]) /\ IsDict(b.kv[k])
                   THEN deep_merge_falsy(a.kv[k], b.kv[k])
                   ELSE b.kv[k]])

\* deep_merge extending a list of the base by the list of the patch.
RECURSIVE deep_merge_extend(_, _)
deep_merge_extend(a, b) ==
    IF IsList(a) /\ IsList(b) THEN L(a.items \o b.items)
    ELSE IF ~IsDict(a) \/ ~IsDict(b) THEN b
    ELSE M([k \in DOMAIN a.kv \cup DOMAIN b.kv |->
              IF k \notin DOMAIN b.kv THEN a.kv[k]
              ELSE IF k \in DOMAIN a.kv
                   THEN deep_merge_extend(a.kv[k], b.kv[k])
                   ELSE b.kv[k]])

\* deep_merge as dict.update: a key of the patch replaces the base's value
\* also when both values are dicts.
deep_merge_shallow(a, b) ==
    IF ~IsDict(a) \/ ~IsDict(b) THEN b
    ELSE M([k \in DOMAIN a.kv \cup DOMAIN b.kv |->
              IF k \notin DOMAIN b.kv THEN a.kv[k] ELSE b.kv[k]])

RECURSIVE deep_merge(_, _)
deep_merge(a, b) ==
    IF ~IsDict(a) \/ ~IsDict(b) THEN b
    ELSE M([k \in DOMAIN a.kv \cup DOMAIN b.kv |->
              IF k \notin DOMAIN b.kv THEN a.kv[k]
              ELSE IF k \in DOMAIN a.kv /\ IsDict(a.kv[k]) /\ IsDict(b.kv[k])
                   THEN deep_merge(a.kv[k], b.kv[k])
                   ELSE b.kv[k]])

\* sanitize_for_model_input (script.py 302-309)
sanitize_for_model_input(obj) ==
    IF ~IsDict(obj) THEN obj
    ELSE M([k \in DOMAIN obj.kv \ {"verification", "validation", "model_meta", "model"}
              |-> obj.kv[k]])

\* ------------------------------------------------------------------------
\* Sequence helpers
\* ------------------------------------------------------------------------
\* The sequences over a set of length at most n.
SeqsUpTo(set, n) == UNION {[1..k -> set] : k \in 0..n}

Front(s) == SubSeq(s, 1, Len(s) - 1)
Last(s) == s[Len(s)]
Min(a, b) == IF a <= b THEN a ELSE b
Max(a, b) == IF a >= b THEN a ELSE b
Range(s) == {s[i] : i \in DOMAIN s}

\* ------------------------------------------------------------------------
\* Paths.  A pointer is an opaque string; PathParts is what
\* pointer.lstrip("/").split("/") gives for each pointer of the model
\* (no segment of these pointers holds an escape ~0 or ~1).
\* ------------------------------------------------------------------------
P_STUDY_TYPE == "/study_type"
P_PMID == "/paper_id/pmid"
P_DOI == "/paper_id/doi"
P_TITLE == "/paper_id/title"
P_INC_PMID == "/record/sheets/included_articles/pmid"
P_LEV_PMID == "/record/sheets/level_of_evidence/pmid"
P_AUTHOR == "/record/sheets/included_articles/author"
P_N_PTS == "/record/sheets/included_articles/n_pts"
P_ROUTE_IV == "/record/sheets/included_articles/route_iv"
P_ROUTE_NR == "/record/sheets/included_articles/route_not_reported"
P_MDEV == "/record/sheets/included_articles/mronj_development"
P_RCT_Q1 == "/record/sheets/rct_appraisal/q1_randomized"
P_COHORT_Q1 == "/record/sheets/cohort_appraisal/q1_groups_similar"

SheetPath(sheet, field) == <<"record", "sheets", sheet, field>>

PathParts ==
    (P_STUDY_TYPE :> <<"study_type">>) @@
    (P_PMID :> <<"paper_id", "pmid">>) @@
    (P_DOI :> <<"paper_id", "doi">>) @@
    (P_TITLE :> <<"paper_id", "title">>) @@
    (P_INC_PMID :> SheetPath("included_articles", "pmid")) @@
    (P_LEV_PMID :> SheetPath("level_of_evidence", "pmid")) @@
    (P_AUTHOR :> SheetPath("included_articles", "author")) @@
    (P_N_PTS :> SheetPath("included_articles", "n_pts")) @@
    (P_ROUTE_IV :> SheetPath("included_articles", "route_iv")) @@
    (P_ROUTE_NR :> SheetPath("included_articles", "route_not_reported")) @@
    (P_MDEV :> SheetPath("included_articles", "mronj_development")) @@
    (P_RCT_Q1 :> SheetPath("rct_appraisal", "q1_randomized")) @@
    (P_COHORT_Q1 :> SheetPath("cohort_appraisal", "q1_groups_similar"))

Paths == DOMAIN PathParts

\* The text of a pointer is a sequence of characters; MaxPointerLen bounds
\* the pointers that are parsed character by character.
MaxPointerLen == 4

\* The characters of those pointers: the separator, the escape character,
\* two decimal digits, a letter, and the character U+00B2, written by its
\* name, for which str.isdigit() holds and int() raises ValueError.
SUPERSCRIPT_TWO == "(superscript two)"
PointerAlphabet == {"/", "~", "0", "1", "a", SUPERSCRIPT_TWO}
DecimalChars == {"0", "1"}
DigitChars == DecimalChars \cup {SUPERSCRIPT_TWO}

CharSeqs(alphabet, lo, hi) == UNION {[1..len -> alphabet] : len \in lo..hi}

\* "".join(chars)
RECURSIVE Join(_)
Join(chars) == IF chars = <<>> THEN "" ELSE Head(chars) \o Join(Tail(chars))

\* The value of a decimal numeral, leading zeros allowed.
RECURSIVE DecimalValue(_)
DecimalValue(chars) ==
    IF chars = <<>> THEN 0
    ELSE 10 * DecimalValue(Front(chars)) + (IF Last(chars) = "1" THEN 1 ELSE 0)

\* str.isdigit() and int(str) on tokens: the tokens made of digit
\* characters, and the value of those int() accepts.
DigitTokens == {Join(chars) : chars \in CharSeqs(DigitChars, 1, MaxPointerLen)}
IntTable ==
    {<<Join(chars), DecimalValue(chars)>> : chars \in CharSeqs(DecimalChars, 1, MaxPointerLen)}

isdigit(token) == token \in DigitTokens
IntAccepts(token) == \E e \in IntTable : e[1] = token
int(token) == (CHOOSE e \in IntTable : e[1] = token)[2]

\* pointer.lstrip("/")
RECURSIVE lstrip_slash(_)
lstrip_slash(chars) ==
    IF chars # <<>> /\ Head(chars) = "/" THEN lstrip_slash(Tail(chars)) ELSE chars

\* str.split("/"): at least one part, empty parts kept
RECURSIVE split_slash(_)
split_slash(chars) ==
    IF chars = <<>> THEN << <<>> >>
    ELSE LET rest == split_slash(Tail(chars))
         IN  IF Head(chars) = "/" THEN << <<>> >> \o rest
             ELSE << <<Head(chars)>> \o Head(rest) >> \o Tail(rest)

\* part.replace("~" + c, by): leftmost occurrences, not overlapping
RECURSIVE replace_escape(_, _, _)
replace_escape(chars, c, by) ==
    IF chars = <<>> THEN <<>>
    ELSE IF Len(chars) >= 2 /\ chars[1] = "~" /\ chars[2] = c
         THEN <<by>> \o replace_escape(SubSeq(chars, 3, Len(chars)), c, by)
         ELSE <<Head(chars)>> \o replace_escape(Tail(chars), c, by)

\* part.replace("~1", "/").replace("~0", "~")
unescape(part) == replace_escape(replace_escape(part, "1", "/"), "0", "~")

\* The tokens of a pointer given as text (paperchecker_utils.py 75-78).
pointer_parts(chars) ==
    LET parts == split_slash(lstrip_slash(chars))
    IN  [i \in DOMAIN parts |-> Join(unescape(parts[i]))]

\* An exception left the call.
ValueError == [t |-> "ValueError"]

\* json_pointer_get (paperchecker_utils.py 72-92): the loop over the
\* tokens.  int(token) raises ValueError for a token str.isdigit() accepts
\* and int() does not.
RECURSIVE PointerWalk(_, _)
PointerWalk(cur, parts) ==
    IF parts = <<>> THEN cur
    ELSE IF IsList(cur)
         THEN IF ~isdigit(Head(parts)) THEN Null
              ELSE IF ~IntAccepts(Head(parts)) THEN ValueError
              ELSE IF int(Head(parts)) >= Len(cur.items) THEN Null
              ELSE PointerWalk(cur.items[int(Head(parts)) + 1], Tail(parts))
    ELSE IF IsDict(cur)
         THEN IF Head(parts) \notin DOMAIN cur.kv THEN Null
              ELSE PointerWalk(cur.kv[Head(parts)], Tail(parts))
         ELSE Null

\* json_pointer_get on the pointers of the pipeline, tokens by PathParts
json_pointer_get(obj, pointer) ==
    IF pointer \in {"", "/"} THEN obj ELSE PointerWalk(obj, PathParts[pointer])

\* json_pointer_get on a pointer given as text
json_pointer_get_text(obj, chars) ==
    IF chars \in {<<>>, <<"/">>} THEN obj ELSE PointerWalk(obj, pointer_parts(chars))

\* The walk assigning the empty dict to cur instead of cur[token]: the
\* other keys of the dict are lost when a step is replaced.
RECURSIVE PointerSetWalk_fresh_parent(_, _, _)
PointerSetWalk_fresh_parent(cur, parts, value) ==
    IF IsList(cur)
    THEN IF ~isdigit(Head(parts)) \/ ~IntAccepts(Head(parts)) THEN ValueError
         ELSE IF int(Head(parts)) >= Len(cur.items) THEN ValueError
         ELSE IF Len(parts) = 1
              THEN L([cur.items EXCEPT ![int(Head(parts)) + 1] = value])
              ELSE LET below == PointerSetWalk_fresh_parent(cur.items[int(Head(parts)) + 1],
                                               Tail(parts), value)
                   IN  IF below = ValueError THEN ValueError
                       ELSE L([cur.items EXCEPT ![int(Head(parts)) + 1] = below])
    ELSE IF ~IsDict(cur) THEN ValueError
    ELSE IF Len(parts) = 1 THEN SetKey(cur, Head(parts), value)
    ELSE LET token == Head(parts)
             step == IF token \notin DOMAIN cur.kv
                        \/ (~IsDict(cur.kv[token]) /\ ~IsList(cur.kv[token]))
                     THEN EmptyMap ELSE cur.kv[token]
             below == PointerSetWalk_fresh_parent(step, Tail(parts), value)
         IN  IF below = ValueError THEN ValueError
             ELSE SetKey(IF step = EmptyMap THEN EmptyMap ELSE cur, token, below)

\* The walk returning at an index out of range instead of raising.
RECURSIVE PointerSetWalk_ignores_range(_, _, _)
PointerSetWalk_ignores_range(cur, parts, value) ==
    IF IsList(cur)
    THEN IF ~isdigit(Head(parts)) \/ ~IntAccepts(Head(parts)) THEN ValueError
         ELSE IF int(Head(parts)) >= Len(cur.items) THEN cur
         ELSE IF Len(parts) = 1
              THEN L([cur.items EXCEPT ![int(Head(parts)) + 1] = value])
              ELSE LET below == PointerSetWalk_ignores_range(cur.items[int(Head(parts)) + 1],
                                               Tail(parts), value)
                   IN  IF below = ValueError THEN ValueError
                       ELSE L([cur.items EXCEPT ![int(Head(parts)) + 1] = below])
    ELSE IF ~IsDict(cur) THEN ValueError
    ELSE IF Len(parts) = 1 THEN SetKey(cur, Head(parts), value)
    ELSE LET token == Head(parts)
             step == IF token \notin DOMAIN cur.kv
                        \/ (~IsDict(cur.kv[token]) /\ ~IsList(cur.kv[token]))
                     THEN EmptyMap ELSE cur.kv[token]
             below == PointerSetWalk_ignores_range(step, Tail(parts), value)
         IN  IF below = ValueError THEN ValueError ELSE SetKey(cur, token, below)

\* The loop replacing a step by an empty list instead of an empty dict:
\* the next token is then looked up in a list.
RECURSIVE PointerSetInPlace_vivifies_list(_, _, _)
PointerSetInPlace_vivifies_list(cur, parts, value) ==
    IF IsList(cur)
    THEN IF ~isdigit(Head(parts)) \/ ~IntAccepts(Head(parts))
         THEN [obj |-> cur, raised |-> TRUE]
         ELSE IF int(Head(parts)) >= Len(cur.items) THEN [obj |-> cur, raised |-> TRUE]
         ELSE IF Len(parts) = 1
              THEN [obj |-> L([cur.items EXCEPT ![int(Head(parts)) + 1] = value]),
                    raised |-> FALSE]
              ELSE LET below == PointerSetInPlace_vivifies_list(
                                    cur.items[int(Head(parts)) + 1], Tail(parts), value)
                   IN  [obj |-> L([cur.items EXCEPT ![int(Head(parts)) + 1] = below.obj]),
                        raised |-> below.raised]
    ELSE IF ~IsDict(cur) THEN [obj |-> cur, raised |-> TRUE]
    ELSE IF Len(parts) = 1
         THEN [obj |-> SetKey(cur, Head(parts), value), raised |-> FALSE]
    ELSE LET token == Head(parts)
             step == IF token \notin DOMAIN cur.kv
                        \/ (~IsDict(cur.kv[token]) /\ ~IsList(cur.kv[token]))
                     THEN L(<<>>) ELSE cur.kv[token]
             below == PointerSetInPlace_vivifies_list(step, Tail(parts), value)
         IN  [obj |-> SetKey(cur, token, below.obj), raised |-> below.raised]

\* json_pointer_set (paperchecker_utils.py 99-121): the loop over the
\* tokens, which assigns in place.  obj is cur as the loop leaves it, with
\* every assignment made before a raise kept, and raised tells whether
\* ValueError was raised.  In a dict a missing step, or one that holds
\* neither a dict nor a list, is replaced by an empty dict before the loop
\* goes on in it (115-117); the last token is assigned (109, 113).
RECURSIVE PointerSetInPlace(_, _, _)
PointerSetInPlace(cur, parts, value) ==
    IF IsList(cur)
    THEN IF ~isdigit(Head(parts)) \/ ~IntAccepts(Head(parts))
         THEN [obj |-> cur, raised |-> TRUE]
         ELSE IF int(Head(parts)) >= Len(cur.items) THEN [obj |-> cur, raised |-> TRUE]
         ELSE IF Len(parts) = 1
              THEN [obj |-> L([cur.items EXCEPT ![int(Head(parts)) + 1] = value]),
                    raised |-> FALSE]
              ELSE LET below == PointerSetInPlace(cur.items[int(Head(parts)) + 1],
                                                  Tail(parts), value)
                   IN  [obj |-> L([cur.items EXCEPT ![int(Head(parts)) + 1] = below.obj]),
                        raised |-> below.raised]
    ELSE IF ~IsDict(cur) THEN [obj |-> cur, raised |-> TRUE]
    ELSE IF Len(parts) = 1
         THEN [obj |-> SetKey(cur, Head(parts), value), raised |-> FALSE]
    ELSE LET token == Head(parts)
             step == IF token \notin DOMAIN cur.kv
                        \/ (~IsDict(cur.kv[token]) /\ ~IsList(cur.kv[token]))
                     THEN EmptyMap ELSE cur.kv[token]
             below == PointerSetInPlace(step, Tail(parts), value)
         IN  [obj |-> SetKey(cur, token, below.obj), raised |-> below.raised]

\* What a caller sees of a walk: the object, or ValueError.
RaisedOr(walk) == IF walk.raised THEN ValueError ELSE walk.obj

\* json_pointer_set (paperchecker_utils.py 95-121): the value of obj after
\* the call, or ValueError when the call raised.
PointerSetWalk(cur, parts, value) == RaisedOr(PointerSetInPlace(cur, parts, value))

\* json_pointer_set on the pointers of the pipeline, tokens by PathParts
json_pointer_set(obj, pointer, value) ==
    IF pointer \in {"", "/"} THEN ValueError
    ELSE PointerSetWalk(obj, PathParts[pointer], value)

\* json_pointer_set on a pointer given as text
json_pointer_set_text(obj, chars, value) ==
    IF chars \in {<<>>, <<"/">>} THEN ValueError
    ELSE PointerSetWalk(obj, pointer_parts(chars), value)

\* obj as json_pointer_set on a pointer given as text leaves it, whether it
\* raised or not
json_pointer_set_left(obj, chars, value) ==
    IF chars \in {<<>>, <<"/">>} THEN obj
    ELSE PointerSetInPlace(obj, pointer_parts(chars), value).obj

\* ------------------------------------------------------------------------
\* values_match (paperchecker_utils.py 23-46)
\* ------------------------------------------------------------------------
\* NUMERIC_TOL_ABS and NUMERIC_TOL_REL are 0.01: one part in TolScale.  The
\* numbers of the model are integers, on which the float comparisons of the
\* code are exact.
TolScale == 100
NUMERIC_TOL_ABS == 1
NUMERIC_TOL_REL == 1

IsStr(x) == x.t = "str"
IsNum(x) == x.t = "num"
Abs(n) == IF n < 0 THEN -n ELSE n

\* str.strip and float(str) on the strings of the model: the strings that
\* are not listed have no blank at either end and are not numerals.
StripTable == (" Smith " :> "Smith") @@ ("200 " :> "200") @@ (" Yes " :> "Yes")
FloatTable == ("200" :> 200) @@ ("111" :> 111) @@ ("1" :> 1) @@ ("-1" :> -1)

strip(s) == IF s \in DOMAIN StripTable THEN StripTable[s] ELSE s

coerce_float(value) ==
    IF IsNum(value) THEN value
    ELSE IF IsStr(value) /\ strip(value.v) \in DOMAIN FloatTable
         THEN N(FloatTable[strip(value.v)])
         ELSE Null

\* The relative test with a tolerance of one instead of one in a hundred.
values_match_mut(a, b) ==
    IF IsNone(a) /\ IsNone(b) THEN TRUE
    ELSE IF IsStr(a) /\ IsStr(b) THEN strip(a.v) = strip(b.v)
    ELSE IF ~IsNone(coerce_float(a)) /\ ~IsNone(coerce_float(b))
            /\ Abs(coerce_float(a).v - coerce_float(b).v) <= Abs(coerce_float(b).v)
         THEN TRUE
         ELSE a = b

values_match(a, b) ==
    IF IsNone(a) /\ IsNone(b) THEN TRUE
    ELSE IF IsStr(a) /\ IsStr(b) THEN strip(a.v) = strip(b.v)
    ELSE LET fa == coerce_float(a)
             fb == coerce_float(b)
         IN  IF ~IsNone(fa) /\ ~IsNone(fb)
                /\ \/ TolScale * Abs(fa.v - fb.v) <= NUMERIC_TOL_ABS
                   \/ /\ Abs(fb.v) > 0
                      /\ TolScale * Abs(fa.v - fb.v) <= NUMERIC_TOL_REL * Abs(fb.v)
             THEN TRUE
             ELSE a = b

\* The relative difference taken against the left operand.
values_match_tol_left(a, b, abs_tol, rel_tol) ==
    IF IsNone(a) /\ IsNone(b) THEN TRUE
    ELSE IF IsStr(a) /\ IsStr(b) THEN strip(a.v) = strip(b.v)
    ELSE LET fa == coerce_float(a)
             fb == coerce_float(b)
         IN  IF ~IsNone(fa) /\ ~IsNone(fb)
                /\ \/ TolScale * Abs(fa.v - fb.v) <= abs_tol
                   \/ /\ Abs(fa.v) > 0
                      /\ TolScale * Abs(fa.v - fb.v) <= rel_tol * Abs(fa.v)
             THEN TRUE
             ELSE a = b

\* values_match called with its tolerances given, in parts of TolScale.
values_match_tol(a, b, abs_tol, rel_tol) ==
    IF IsNone(a) /\ IsNone(b) THEN TRUE
    ELSE IF IsStr(a) /\ IsStr(b) THEN strip(a.v) = strip(b.v)
    ELSE LET fa == coerce_float(a)
             fb == coerce_float(b)
         IN  IF ~IsNone(fa) /\ ~IsNone(fb)
                /\ \/ TolScale * Abs(fa.v - fb.v) <= abs_tol
                   \/ /\ Abs(fb.v) > 0
                      /\ TolScale * Abs(fa.v - fb.v) <= rel_tol * Abs(fb.v)
             THEN TRUE
             ELSE a = b

\* ------------------------------------------------------------------------
\* normalize_pmid (paperchecker_utils.py 49-69)
\* ------------------------------------------------------------------------
\* A str value given by its characters.
Text(chars) == [t |-> "text", chars |-> chars]
IsText(x) == x.t = "text"

\* str(n) of an integer
DigitNames == <<"0", "1", "2", "3", "4", "5", "6", "7", "8", "9">>

RECURSIVE DecimalString(_)
DecimalString(n) ==
    IF n < 0 THEN "-" \o DecimalString(-n)
    ELSE IF n < 10 THEN DigitNames[n + 1]
    ELSE DecimalString(n \div 10) \o DigitNames[(n % 10) + 1]

\* value.strip(), the blank being the whitespace of the texts
RECURSIVE lstrip_blank(_)
lstrip_blank(chars) ==
    IF chars # <<>> /\ Head(chars) = " " THEN lstrip_blank(Tail(chars)) ELSE chars

RECURSIVE rstrip_blank(_)
rstrip_blank(chars) ==
    IF chars # <<>> /\ Last(chars) = " " THEN rstrip_blank(Front(chars)) ELSE chars

strip_text(chars) == rstrip_blank(lstrip_blank(chars))

\* str.isdigit() on characters, and the texts int() accepts
isdigit_text(chars) == chars # <<>> /\ \A i \in DOMAIN chars : chars[i] \in DigitChars
IsDecimalText(chars) == chars # <<>> /\ \A i \in DOMAIN chars : chars[i] \in DecimalChars

\* str(int(chars)); int() raises ValueError for a digit it does not accept.
StrOfInt(chars) ==
    IF IsDecimalText(chars) THEN S(DecimalString(DecimalValue(chars))) ELSE ValueError

\* stripped.endswith(".0") and stripped[:-2]
EndsWithPointZero(chars) ==
    Len(chars) >= 2 /\ chars[Len(chars) - 1] = "." /\ chars[Len(chars)] = "0"
WithoutLastTwo(chars) == SubSeq(chars, 1, Len(chars) - 2)

\* normalize_pmid with str(value) for every float, also an integral one.
normalize_pmid_float_str(value) ==
    IF IsNone(value) THEN Null
    ELSE IF value.t = "bool" THEN Null
    ELSE IF IsNum(value) THEN S(DecimalString(value.v))
    ELSE IF value.t = "float"
         THEN S(DecimalString(value.v) \o "." \o DigitNames[value.tenths + 1])
    ELSE LET stripped == strip_text(value.chars)
         IN  IF stripped = <<>> THEN Null
             ELSE IF isdigit_text(stripped) THEN StrOfInt(stripped)
             ELSE IF EndsWithPointZero(stripped) /\ isdigit_text(WithoutLastTwo(stripped))
                  THEN StrOfInt(WithoutLastTwo(stripped))
             ELSE S(Join(stripped))

\* The values are None, booleans, integers, floats with one decimal place
\* and texts; the final str(value) of other types is not modelled.
normalize_pmid(value) ==
    IF IsNone(value) THEN Null
    ELSE IF value.t = "bool" THEN Null
    ELSE IF IsNum(value) THEN S(DecimalString(value.v))
    ELSE IF value.t = "float"
         THEN IF value.tenths = 0 THEN S(DecimalString(value.v))
              ELSE S(DecimalString(value.v) \o "." \o DigitNames[value.tenths + 1])
    ELSE LET stripped == strip_text(value.chars)
         IN  IF stripped = <<>> THEN Null
             ELSE IF isdigit_text(stripped) THEN StrOfInt(stripped)
             ELSE IF EndsWithPointZero(stripped) /\ isdigit_text(WithoutLastTwo(stripped))
                  THEN StrOfInt(WithoutLastTwo(stripped))
             ELSE S(Join(stripped))

\* ------------------------------------------------------------------------
\* Decisions
\* ------------------------------------------------------------------------
\* A decision of DECISION_SCHEMA (script.py 899-910).
Decision(path, value, evidence, page) ==
    [path |-> path, value |-> value, evidence |-> evidence, page |-> page]

EV_PAGE1 == "PAGE 1: reported in the abstract"

\* extract_page_from_evidence (paperchecker_utils.py 124-131) on the
\* evidence texts of the model.
extract_page_from_evidence(evidence_text) ==
    IF evidence_text = EV_PAGE1 THEN N(1) ELSE Null

\* decisions_only_non_null (script.py 1474-1485)
BackfillPage(d) ==
    IF IsNone(d.page) /\ d.evidence # ""
    THEN LET extracted == extract_page_from_evidence(d.evidence)
         IN  IF ~IsNone(extracted) THEN [d EXCEPT !.page = extracted] ELSE d
    ELSE d

\* The filter without its test: null-valued decisions are kept.
HasValue_mut(d) == TRUE

HasValue(d) == ~IsNone(d.value)

decisions_only_non_null(decisions) ==
    LET kept == SelectSeq(decisions, HasValue)
    IN  [i \in DOMAIN kept |-> BackfillPage(kept[i])]

\* chunk_list (script.py 1487-1488)
chunk_list(xs, n) ==
    [i \in 1..((Len(xs) + n - 1) \div n) |->
        SubSeq(xs, (i - 1) * n + 1, Min(i * n, Len(xs)))]

\* dedupe_decisions (paperchecker_utils.py 134-146)
RECURSIVE FlattenDecisions(_)
FlattenDecisions(task_results) ==
    IF task_results = <<>> THEN <<>>
    ELSE FlattenDecisions(Front(task_results)) \o Last(task_results).decisions

\* [p for p in ordered_paths if p != path]
RECURSIVE DropPath(_, _)
DropPath(ordered_paths, path) ==
    IF ordered_paths = <<>> THEN <<>>
    ELSE IF Head(ordered_paths) = path THEN DropPath(Tail(ordered_paths), path)
    ELSE <<Head(ordered_paths)>> \o DropPath(Tail(ordered_paths), path)

\* The fold without the move to the end: a path seen again keeps the
\* position of its first occurrence.
RECURSIVE DedupeFold_in_place(_)
DedupeFold_in_place(ds) ==
    IF ds = <<>> THEN [ordered_paths |-> <<>>, decisions_by_path |-> <<>>]
    ELSE LET acc == DedupeFold_in_place(Front(ds))
             decision == Last(ds)
             path == decision.path
         IN  IF path = "" THEN acc
             ELSE [ordered_paths |->
                      IF path \in DOMAIN acc.decisions_by_path
                      THEN acc.ordered_paths
                      ELSE Append(acc.ordered_paths, path),
                   decisions_by_path |-> (path :> decision) @@ acc.decisions_by_path]

RECURSIVE DedupeFold(_)
DedupeFold(ds) ==
    IF ds = <<>> THEN [ordered_paths |-> <<>>, decisions_by_path |-> <<>>]
    ELSE LET acc == DedupeFold(Front(ds))
             decision == Last(ds)
             path == decision.path
         IN  IF path = "" THEN acc
             ELSE [ordered_paths |->
                      Append(IF path \in DOMAIN acc.decisions_by_path
                             THEN DropPath(acc.ordered_paths, path)
                             ELSE acc.ordered_paths, path),
                   decisions_by_path |-> (path :> decision) @@ acc.decisions_by_path]

dedupe_decisions(task_results) ==
    LET r == DedupeFold(FlattenDecisions(task_results))
    IN  [i \in DOMAIN r.ordered_paths |-> r.decisions_by_path[r.ordered_paths[i]]]

_collect_decisions(all_task_results) == dedupe_decisions(all_task_results)


\* ------------------------------------------------------------------------
\* Score computation (script.py 620-657)
\* ------------------------------------------------------------------------
\* Any capitalisation of the word counts.
_is_yes_any_case(v) == v.t = "str" /\ strip(v.v) \in {"Yes", "yes", "YES"}

_is_yes(v) == v.t = "str" /\ strip(v.v) = "Yes"

\* str(x).strip() == lit, for the scalars of the model
StrIs(x, lit) ==
    CASE lit = "1"  -> x = S("1") \/ x = N(1)
      [] lit = "+1" -> x = S("+1")
      [] lit = "-1" -> x = S("-1") \/ x = N(-1)
      [] OTHER      -> FALSE

\* The keys of the appraisal sheets for which k.startswith("q") holds.
QKeys == {"q1_randomized", "q2_randomization_method", "q3_double_blind",
          "q4_blinding_method", "q5_withdrawals_dropouts", "q1_groups_similar",
          "q1_inclusion_criteria_clear", "q1_question_clear",
          "q2_condition_measured_standard", "q1_pico", "q2_protocol_predefined"}

\* sum of f[k] over the keys
RECURSIVE SumOver(_, _)
SumOver(keys, f) ==
    IF keys = {} THEN 0
    ELSE LET k == CHOOSE x \in keys : TRUE IN f[k] + SumOver(keys \ {k}, f)

RctPlainKeys == {"q1_randomized", "q3_double_blind", "q5_withdrawals_dropouts"}
RctSignedKeys == {"q2_randomization_method", "q4_blinding_method"}

\* The total without its floor at zero.
RctTotal_no_floor(rct) ==
    LET plain == [k \in RctPlainKeys |-> IF StrIs(Get(rct, k), "1") THEN 1 ELSE 0]
        signed == [k \in RctSignedKeys |->
                      IF StrIs(Get(rct, k), "+1") THEN 1
                      ELSE IF StrIs(Get(rct, k), "-1") THEN -1 ELSE 0]
    IN  SumOver(RctPlainKeys, plain) + SumOver(RctSignedKeys, signed)

RctTotal(rct) ==
    LET plain == [k \in RctPlainKeys |-> IF StrIs(Get(rct, k), "1") THEN 1 ELSE 0]
        signed == [k \in RctSignedKeys |->
                      IF StrIs(Get(rct, k), "+1") THEN 1
                      ELSE IF StrIs(Get(rct, k), "-1") THEN -1 ELSE 0]
    IN  Max(0, SumOver(RctPlainKeys, plain) + SumOver(RctSignedKeys, signed))

YesTotal(sheet) ==
    LET q_keys == DOMAIN sheet.kv \cap QKeys
    IN  SumOver(q_keys, [k \in q_keys |-> IF _is_yes(sheet.kv[k]) THEN 1 ELSE 0])

\* compute_scores_inplace writes total_score into a sheet that is a dict.
ScoreRct(sheets) ==
    IF IsDict(Get(sheets, "rct_appraisal"))
    THEN SetKey(sheets, "rct_appraisal",
                SetKey(sheets.kv["rct_appraisal"], "total_score",
                       N(RctTotal(sheets.kv["rct_appraisal"]))))
    ELSE sheets

ScoreYes(sheets, name) ==
    IF IsDict(Get(sheets, name))
    THEN SetKey(sheets, name,
                SetKey(sheets.kv[name], "total_score", N(YesTotal(sheets.kv[name]))))
    ELSE sheets

\* (final_obj.get("record") or {}).get("sheets") or {}
SheetsOf(final_obj) == OrElse(Get(OrElse(Get(final_obj, "record"), EmptyMap), "sheets"), EmptyMap)

compute_scores_inplace(final_obj) ==
    LET sheets == SheetsOf(final_obj)
        scored == ScoreYes(ScoreYes(ScoreRct(sheets), "case_series_appraisal"),
                           "systematic_appraisal")
    IN  IF scored = sheets THEN final_obj
        ELSE SetKey(final_obj, "record", SetKey(final_obj.kv["record"], "sheets", scored))

\* ------------------------------------------------------------------------
\* rule_validation (script.py 1542-1559)
\* ------------------------------------------------------------------------
Issue(severity, code, path) == [severity |-> severity, code |-> code, path |-> path]

\* The route conflict is raised with severity CRITICAL.
rule_validation_critical(final_obj) ==
    LET inc == OrElse(Get(SheetsOf(final_obj), "included_articles"), EmptyMap)
        mdev == Get(inc, "mronj_development")
        route_nr == Get(inc, "route_not_reported") = N(1)
        route_any == \E k \in {"route_iv", "route_oral", "route_im",
                               "route_subcutaneous", "route_both"} : Get(inc, k) = N(1)
    IN  (IF mdev \notin {Null, S("Yes"), S("No")}
         THEN <<Issue("WARN", "MRONJ_DEV_UNEXPECTED", P_MDEV)>> ELSE <<>>)
        \o
        (IF route_nr /\ route_any
         THEN <<Issue("CRITICAL", "ROUTE_NR_CONFLICT", "/record/sheets/included_articles")>>
         ELSE <<>>)

rule_validation(final_obj) ==
    LET inc == OrElse(Get(SheetsOf(final_obj), "included_articles"), EmptyMap)
        mdev == Get(inc, "mronj_development")
        route_nr == Get(inc, "route_not_reported") = N(1)
        route_any == \E k \in {"route_iv", "route_oral", "route_im",
                               "route_subcutaneous", "route_both"} : Get(inc, k) = N(1)
    IN  (IF mdev \notin {Null, S("Yes"), S("No")}
         THEN <<Issue("WARN", "MRONJ_DEV_UNEXPECTED", P_MDEV)>> ELSE <<>>)
        \o
        (IF route_nr /\ route_any
         THEN <<Issue("WARN", "ROUTE_NR_CONFLICT", "/record/sheets/included_articles")>>
         ELSE <<>>)

\* ------------------------------------------------------------------------
\* compile_critical_decision_report (script.py 1726-1776)
\* ------------------------------------------------------------------------
\* A decision review of VERIFIER_SCHEMA (script.py 1331-1347).
Review(path, status, driver_value, proposed_value) ==
    [path |-> path, status |-> status, driver_value |-> driver_value,
     proposed_value |-> proposed_value, explanation |-> "", evidence |-> ""]

\* A verifier pass: the keys of VERIFIER_SCHEMA the pipeline reads.
VerifierPass(reviews, patch) == [decision_reviews |-> reviews, suggested_patch |-> patch]

\* review.get(key, default)
RGet(review, key, default) == IF key \in DOMAIN review THEN review[key] ELSE default

RECURSIVE FlattenReviews(_)
FlattenReviews(verifier_passes) ==
    IF verifier_passes = <<>> THEN <<>>
    ELSE FlattenReviews(Front(verifier_passes)) \o Last(verifier_passes).decision_reviews

\* The first review of a path is kept.
RECURSIVE LatestFold_first(_)
LatestFold_first(reviews) ==
    IF reviews = <<>> THEN <<>>
    ELSE LET dr == Last(reviews)
         IN  IF dr.path # "" THEN LatestFold_first(Front(reviews)) @@ (dr.path :> dr)
             ELSE LatestFold_first(Front(reviews))

\* latest_review_by_path: a later review of a path overwrites an earlier one.
RECURSIVE LatestFold(_)
LatestFold(reviews) ==
    IF reviews = <<>> THEN <<>>
    ELSE LET dr == Last(reviews)
         IN  IF dr.path # "" THEN (dr.path :> dr) @@ LatestFold(Front(reviews))
             ELSE LatestFold(Front(reviews))

\* The lookup built from the last pass alone.
latest_review_by_path_mut(verifier_passes) ==
    IF verifier_passes = <<>> THEN <<>>
    ELSE LatestFold(Last(verifier_passes).decision_reviews)

latest_review_by_path(verifier_passes) == LatestFold(FlattenReviews(verifier_passes))

ReportEntry(path, final_value, status, explanation, evidence) ==
    [path |-> path, final_value |-> final_value, status |-> status,
     explanation |-> explanation, evidence |-> evidence]

\* The test with UNSURE left out.
RaisesIssue_mut(status) == status \in {"DISAGREE"}

\* status in ("DISAGREE", "UNSURE") (script.py 1768)
RaisesIssue(status) == status \in {"DISAGREE", "UNSURE"}

VerifierCode(status) == IF status = "DISAGREE" THEN "VERIFIER_DISAGREE" ELSE "VERIFIER_UNSURE"

RECURSIVE CompileFold(_, _, _)
CompileFold(ds, latest, final_driver) ==
    IF ds = <<>> THEN [critical_report |-> <<>>, issues |-> <<>>]
    ELSE LET acc == CompileFold(Front(ds), latest, final_driver)
             path == Last(ds).path
         IN  IF path = "" THEN acc
             ELSE IF path \notin DOMAIN latest
             THEN [critical_report |-> Append(acc.critical_report,
                       ReportEntry(path, json_pointer_get(final_driver, path), "MISSING",
                                   "Missing verifier review for decision.", "")),
                   issues |-> Append(acc.issues,
                       Issue("CRITICAL", "MISSING_VERIFIER_REVIEW", path))]
             ELSE LET review == latest[path]
                      status == RGet(review, "status", "UNSURE")
                      final_val == RGet(review, "proposed_value",
                                        RGet(review, "driver_value", Null))
                  IN  [critical_report |-> Append(acc.critical_report,
                           ReportEntry(path, final_val, status,
                                       RGet(review, "explanation", ""),
                                       RGet(review, "evidence", ""))),
                       issues |-> IF RaisesIssue(status)
                                  THEN Append(acc.issues,
                                           Issue("CRITICAL", VerifierCode(status), path))
                                  ELSE acc.issues]

compile_critical_decision_report(verifier_passes, decisions_non_null, final_driver) ==
    CompileFold(decisions_non_null, latest_review_by_path(verifier_passes), final_driver)

\* ------------------------------------------------------------------------
\* build_final_object (script.py 1778-1806)
\* ------------------------------------------------------------------------
RECURSIVE ApplySuggestedPatches(_, _)
ApplySuggestedPatches(merged, verifier_passes) ==
    IF verifier_passes = <<>> THEN merged
    ELSE LET m == ApplySuggestedPatches(merged, Front(verifier_passes))
             patch == Last(verifier_passes).suggested_patch
         IN  IF IsDict(patch) /\ Truthy(patch) THEN deep_merge(m, patch) ELSE m

\* Any issue, whatever its severity, asks for human review.
AnyCritical_mut(issues) == issues # <<>>

AnyCritical(issues) == \E i \in DOMAIN issues : issues[i].severity = "CRITICAL"

NoPaperId == M([pmid |-> Null, doi |-> Null, title |-> Null])

build_final_object(working_obj, verifier_passes, decisions_non_null) ==
    LET merged == compute_scores_inplace(ApplySuggestedPatches(working_obj, verifier_passes))
        compiled == compile_critical_decision_report(verifier_passes, decisions_non_null, merged)
        issues == compiled.issues \o rule_validation(merged)
    IN  [version |-> "2.0",
         paper_id |-> OrElse(Get(merged, "paper_id"), NoPaperId),
         study_type |-> GetOr(merged, "study_type", S("unclear")),
         record |-> OrElse(Get(merged, "record"), M([sheets |-> EmptyMap])),
         verification |-> [passes |-> verifier_passes,
                           critical_decisions |-> compiled.critical_report],
         validation |-> [needs_human_review |-> AnyCritical(issues),
                         issues |-> issues]]


\* ------------------------------------------------------------------------
\* The working object (script.py 1817-1855)
\* ------------------------------------------------------------------------
AppraisalSheets == {"rct_appraisal", "cohort_appraisal", "case_series_appraisal",
                    "case_control_appraisal", "systematic_appraisal"}

_init_working_object ==
    M([paper_id |-> NoPaperId,
       study_type |-> S("unclear"),
       record |-> M([sheets |-> M([k \in {"included_articles", "level_of_evidence"}
                                        \cup AppraisalSheets |->
                                     IF k \in AppraisalSheets THEN Null ELSE EmptyMap])])])

_apply_patch(working, patch) ==
    IF ~IsDict(patch) \/ ~Truthy(patch) THEN working ELSE deep_merge(working, patch)

_prune_redundant_patch_fields(patch) ==
    IF ~IsDict(patch) \/ ~Truthy(patch) THEN patch
    ELSE LET record == Get(patch, "record")
             record2 == IF IsDict(record) /\ ~IsDict(Get(record, "sheets"))
                        THEN PopKey(record, "sheets") ELSE record
             c1 == IF ~IsDict(record) THEN patch
                   ELSE IF ~Truthy(record2) THEN PopKey(patch, "record")
                   ELSE SetKey(patch, "record", record2)
             paper_id == Get(c1, "paper_id")
             c2 == IF IsDict(paper_id)
                      /\ \A k \in {"pmid", "doi", "title"} : Get(paper_id, k) \in {Null, S("")}
                   THEN PopKey(c1, "paper_id") ELSE c1
         IN  IF Get(c2, "study_type") \in {Null, S("")} THEN PopKey(c2, "study_type") ELSE c2

\* ------------------------------------------------------------------------
\* The extractor and the verifier are oracles: what a call may return.
\* ------------------------------------------------------------------------
Tasks == 1..NumParallelTasks

TaskResult(patch, decisions) == [patch |-> patch, decisions |-> decisions]
NoResult == TaskResult(Null, <<>>)

\* A patch of build_task_schema (script.py 954-980).
TaskPatch(pmid, study_type, sheets) ==
    M([paper_id |-> M([pmid |-> pmid, doi |-> Null, title |-> Null]),
       study_type |-> study_type,
       record |-> M([sheets |-> M(sheets)])])

IncOnly(fields) == [included_articles |-> M(fields)]

\* A patch of build_appraisal_schema (script.py 1110-1134).
AppraisalPatch(sheet, fields) == M([record |-> M([sheets |-> M((sheet :> M(fields)))])])

ExtractorResults(t) ==
    CASE t = 1 ->
           { TaskResult(TaskPatch(Null, S("rct"),
                            [included_articles |-> M([author |-> S("Smith")]),
                             level_of_evidence |-> M([level_of_evidence |-> Null])]),
                        <<Decision(P_STUDY_TYPE, S("rct"), EV_PAGE1, Null)>>),
             TaskResult(TaskPatch(N(111), S("rct"),
                            [included_articles |-> M([author |-> Null]),
                             level_of_evidence |-> M([level_of_evidence |-> Null])]),
                        <<Decision(P_PMID, N(111), "", Null)>>),
             TaskResult(TaskPatch(Null, S("cohort"),
                            [included_articles |-> M([author |-> Null]),
                             level_of_evidence |-> M([level_of_evidence |-> Null])]),
                        <<Decision(P_STUDY_TYPE, S("cohort"), "", N(2))>>),
             TaskResult(TaskPatch(Null, Null,
                            [included_articles |-> M([author |-> Null]),
                             level_of_evidence |-> M([level_of_evidence |-> Null])]),
                        <<>>) }
      [] t = 2 ->
           { TaskResult(TaskPatch(Null, Null, IncOnly([n_pts |-> N(10)])),
                        <<Decision(P_N_PTS, N(10), "", N(1))>>),
             TaskResult(TaskPatch(Null, Null, IncOnly([n_pts |-> Null])),
                        <<Decision(P_N_PTS, Null, "", Null)>>) }
      [] t = 3 ->
           { TaskResult(TaskPatch(Null, Null,
                            IncOnly([route_iv |-> N(1), route_not_reported |-> N(1)])),
                        <<Decision(P_ROUTE_IV, N(1), "", Null)>>),
             TaskResult(TaskPatch(Null, Null,
                            IncOnly([route_iv |-> N(1), route_not_reported |-> Null])),
                        <<>>) }
      [] t = 4 ->
           { TaskResult(TaskPatch(Null, Null, IncOnly([mronj_development |-> S("Yes")])),
                        <<Decision(P_MDEV, S("Yes"), "", Null),
                          Decision(P_N_PTS, N(12), "", Null)>>),
             TaskResult(TaskPatch(Null, Null, IncOnly([mronj_development |-> S("Unclear")])),
                        <<>>) }

Task5StudyTypes == {"rct", "cohort", "case_series", "case_control", "systematic_review"}

AppraisalResults(study_type) ==
    CASE study_type = "rct" ->
           { TaskResult(AppraisalPatch("rct_appraisal",
                            [q1_randomized |-> S("1"), q2_randomization_method |-> Null,
                             total_score |-> Null]),
                        <<Decision(P_RCT_Q1, S("1"), "", Null)>>),
             TaskResult(AppraisalPatch("rct_appraisal",
                            [q1_randomized |-> S("1"), q2_randomization_method |-> S("-1"),
                             q4_blinding_method |-> S("+1"), total_score |-> N(5)]),
                        <<>>) }
      [] study_type = "cohort" ->
           { TaskResult(AppraisalPatch("cohort_appraisal", [q1_groups_similar |-> S("Yes")]),
                        <<Decision(P_COHORT_Q1, S("Yes"), "", Null)>>) }
      [] OTHER -> {}

\* What the verifier may answer for the decisions of one task: a status for
\* the reviews ("NONE": it returns no review) and a suggested patch.
Outcome(status, patch) == [status |-> status, patch |-> patch]

VerifierOutcomes(t) ==
    CASE t = 1 -> { Outcome(st, p) : st \in {"AGREE", "DISAGREE", "NONE"},
                                     p \in {EmptyMap, M([study_type |-> S("cohort")])} }
      [] t = 2 -> { Outcome("AGREE", EmptyMap), Outcome("UNSURE", EmptyMap) }
      [] t = 3 -> { Outcome("AGREE", EmptyMap), Outcome("NONE", EmptyMap) }
      [] t = 4 -> { Outcome("AGREE", EmptyMap),
                    Outcome("DISAGREE", M([record |-> M([sheets |->
                        M(IncOnly([mronj_development |-> S("No")]))])])) }
      [] t = 5 -> { Outcome("AGREE", EmptyMap), Outcome("UNSURE", EmptyMap),
                    Outcome("DISAGREE", AppraisalPatch("rct_appraisal",
                        [q1_randomized |-> S("0"), q2_randomization_method |-> S("-1"),
                         total_score |-> N(4)])) }

\* The value a DISAGREE review proposes for a path.
Proposed(path) ==
    CASE path = P_STUDY_TYPE -> S("cohort")
      [] path = P_MDEV -> S("No")
      [] OTHER -> Null

ReviewsFor(chunk, status) ==
    IF status = "NONE" THEN <<>>
    ELSE [i \in DOMAIN chunk |->
            Review(chunk[i].path, status, chunk[i].value,
                   IF status = "DISAGREE" THEN Proposed(chunk[i].path) ELSE Null)]

VerifierResults(t, chunk) ==
    { VerifierPass(ReviewsFor(chunk, o.status), o.patch) : o \in VerifierOutcomes(t) }


\* ------------------------------------------------------------------------
\* State of one run of run_pipeline (script.py 2240-2338)
\* ------------------------------------------------------------------------
VARIABLES
    run,                  \* "loop", "returned", or the exception that left run_pipeline
    idx,                  \* position of the loop in pdf_paths
    processed_entries,    \* the processed-state file: pdf paths recorded
    finals,               \* pdf paths whose final object was appended to finals
    xlsx_writes,          \* pdf paths for which apply_to_workbook saved the workbook
    docx_writes,          \* pdf paths for which write_review_docx appended a section
    audit_writes,         \* pdf paths for which the audit JSON was written
    pc,                   \* position of run_pipeline_for_pdf
    thr,                  \* the four pool threads running run_task_with_verify
    collected,            \* number of futures whose result() returned
    all_task_results,
    all_verifier_passes,
    all_patches,
    task5,                \* the locals of task 5: its result and the chunks left
    decisions_non_null,   \* the decisions handed to build_final_object
    final_obj

\* State of a caller of deep_merge: the objects of the interpreter.
VARIABLES
    heap,                 \* the dict objects, by address
    arg_a,                \* the first argument of deep_merge: a scalar or a reference
    arg_b,                \* the second argument
    out,                  \* what deep_merge returned
    snapshot,             \* the values of the arguments when deep_merge was called
    mutations,            \* number of writes the caller made into the result
    mphase                \* "off", "ready" (before the call) or "merged"

mergeVars == <<heap, arg_a, arg_b, out, snapshot, mutations, mphase>>

\* State of the cross-driver comparison of one document (spec 4.7).
VARIABLES
    report_a,             \* the comparison payload of pipeline A
    report_b,             \* the comparison payload of pipeline B
    adjudication_enabled,
    abba_pc,              \* "off", "compare", "adjudicate", "write", "written", "refused"
    mismatches,           \* the mismatches still to be adjudicated
    unresolved,           \* the paths of the mismatches left unresolved
    picks,                \* the adjudicator's answer, by path
    abba_working          \* the working copy seeded from report A

abbaVars == <<report_a, report_b, adjudication_enabled, abba_pc, mismatches, unresolved,
              picks, abba_working>>

\* State of a caller of one of the pure functions of the utilities.
VARIABLES
    fn,                   \* "off", or the name of the function under call
    args,                 \* the arguments of the call
    ret                   \* the values returned so far, in call order

fnVars == <<fn, args, ret>>
auxVars == <<mergeVars, abbaVars, fnVars>>

vars == <<run, idx, processed_entries, finals, xlsx_writes, docx_writes, audit_writes,
          pc, thr, collected, all_task_results, all_verifier_passes, all_patches,
          task5, decisions_non_null, final_obj, auxVars>>

pipelineVars == <<run, idx, processed_entries, finals, xlsx_writes, docx_writes,
                  audit_writes, pc, thr, collected, all_task_results,
                  all_verifier_passes, all_patches, task5, decisions_non_null, final_obj>>
runVars == <<run, idx, processed_entries, finals>>
outVars == <<xlsx_writes, docx_writes, audit_writes>>
listVars == <<all_task_results, all_verifier_passes, all_patches>>

pdf_paths == [i \in 1..NumDocs |-> i]

NoFinal == [version |-> "none"]
Pending == [st |-> "pending", result |-> NoResult, passes |-> <<>>, chunks |-> <<>>]
NoTask5 == [result |-> NoResult, chunks |-> <<>>, passes |-> <<>>]

\* No deep_merge caller is under observation.
MergeOff ==
    /\ heap = <<>>
    /\ arg_a = Null
    /\ arg_b = Null
    /\ out = Null
    /\ snapshot = [a |-> Null, b |-> Null]
    /\ mutations = 0
    /\ mphase = "off"

\* No comparison is under way.
AbbaOff ==
    /\ report_a = Null
    /\ report_b = Null
    /\ adjudication_enabled = FALSE
    /\ abba_pc = "off"
    /\ mismatches = <<>>
    /\ unresolved = <<>>
    /\ picks = <<>>
    /\ abba_working = Null

\* No pure function is under call.
FnOff ==
    /\ fn = "off"
    /\ args = <<>>
    /\ ret = <<>>

AuxOff == MergeOff /\ AbbaOff /\ FnOff

\* The processed-state file may hold the first pdf from an earlier run.
PipelineInit ==
    /\ run = "loop"
    /\ idx = 1
    /\ processed_entries \in {<<>>, <<pdf_paths[1]>>}
    /\ finals = <<>>
    /\ xlsx_writes = <<>>
    /\ docx_writes = <<>>
    /\ audit_writes = <<>>
    /\ pc = "idle"
    /\ thr = [t \in Tasks |-> Pending]
    /\ collected = 0
    /\ all_task_results = <<>>
    /\ all_verifier_passes = <<>>
    /\ all_patches = <<>>
    /\ task5 = NoTask5
    /\ decisions_non_null = <<>>
    /\ final_obj = NoFinal

Init == AuxOff /\ PipelineInit

\* The pipeline at rest, for the specifications of single operations.
PipelineOff == PipelineInit /\ processed_entries = <<>>

\* ---- run_pipeline: the loop over pdf_paths (script.py 2296-2338) ----

InLoop == run = "loop" /\ pc = "idle" /\ idx <= NumDocs

\* os.path.exists(pdf) is false: FileNotFoundError leaves run_pipeline.
MissingPdf ==
    /\ InLoop
    /\ run' = "FileNotFoundError"
    /\ UNCHANGED <<idx, processed_entries, finals, outVars, pc, thr, collected, listVars,
                   task5, decisions_non_null, final_obj>>
    /\ UNCHANGED auxVars

\* skip_existing_evals (default True) and the pdf is in processed_set.
SkipDoc ==
    /\ InLoop
    /\ pdf_paths[idx] \in Range(processed_entries)
    /\ idx' = idx + 1
    /\ UNCHANGED <<run, processed_entries, finals, outVars, pc, thr, collected, listVars,
                   task5, decisions_non_null, final_obj>>
    /\ UNCHANGED auxVars

\* run_pipeline_for_pdf is entered and the four tasks are submitted
\* (script.py 2078-2103).
StartDoc ==
    /\ InLoop
    /\ pdf_paths[idx] \notin Range(processed_entries)
    /\ pc' = "pool"
    /\ thr' = [t \in Tasks |-> Pending]
    /\ collected' = 0
    /\ all_task_results' = <<>>
    /\ all_verifier_passes' = <<>>
    /\ all_patches' = <<>>
    /\ task5' = NoTask5
    /\ decisions_non_null' = <<>>
    /\ final_obj' = NoFinal
    /\ UNCHANGED <<runVars, outVars>>
    /\ UNCHANGED auxVars

\* The loop is over: run_pipeline returns finals.
FinishRun ==
    /\ run = "loop" /\ pc = "idle" /\ idx = NumDocs + 1
    /\ run' = "returned"
    /\ UNCHANGED <<idx, processed_entries, finals, outVars, pc, thr, collected, listVars,
                   task5, decisions_non_null, final_obj>>
    /\ UNCHANGED auxVars

\* ---- the pool threads: run_task_with_verify (script.py 1948-1975) ----

PoolRunning == run = "loop" /\ pc \in {"pool", "unwind"}

\* run_driver returns; the patch is pruned and the non-null decisions are
\* chunked (verify_decisions, script.py 1927-1933).
ExtractStep(t) ==
    /\ PoolRunning
    /\ thr[t].st = "pending"
    /\ \E r \in ExtractorResults(t) :
         LET pruned_patch == _prune_redundant_patch_fields(r.patch)
             decisions == decisions_only_non_null(r.decisions)
             chunks == chunk_list(decisions, VERIFIER_CHUNK_SIZE)
         IN  thr' = [thr EXCEPT ![t] =
                       [st |-> IF decisions = <<>> THEN "done" ELSE "verify",
                        result |-> TaskResult(pruned_patch, r.decisions),
                        passes |-> <<>>,
                        chunks |-> chunks]]
    /\ UNCHANGED <<runVars, outVars, pc, collected, listVars, task5, decisions_non_null,
                   final_obj>>

Extract(t) == ExtractStep(t) /\ UNCHANGED auxVars

\* _call_with_retries raises in run_driver or in verifier_fn: the thread
\* ends with the exception stored in its future.
CallFails(t) ==
    /\ PoolRunning
    /\ thr[t].st \in {"pending", "verify"}
    /\ thr' = [thr EXCEPT ![t] = [Pending EXCEPT !.st = "failed"]]
    /\ UNCHANGED <<runVars, outVars, pc, collected, listVars, task5, decisions_non_null,
                   final_obj>>
    /\ UNCHANGED auxVars

\* One pass of the loop over the chunks (script.py 1935-1945).
VerifyChunkStep(t) ==
    /\ PoolRunning
    /\ thr[t].st = "verify"
    /\ \E vpass \in VerifierResults(t, Head(thr[t].chunks)) :
         thr' = [thr EXCEPT ![t] =
                   [@ EXCEPT !.passes = Append(@, vpass),
                             !.chunks = Tail(@),
                             !.st = IF Tail(thr[t].chunks) = <<>> THEN "done" ELSE "verify"]]
    /\ UNCHANGED <<runVars, outVars, pc, collected, listVars, task5, decisions_non_null,
                   final_obj>>

VerifyChunk(t) == VerifyChunkStep(t) /\ UNCHANGED auxVars

\* ---- run_pipeline_for_pdf: the main thread ----

\* The results are taken as the threads finish (as_completed), not in the
\* order the tasks were submitted.
Collect_as_completed ==
    /\ run = "loop" /\ pc = "pool" /\ collected < NumParallelTasks
    /\ \E t \in Tasks :
         /\ thr[t].st = "done"
         /\ thr[t].result \notin Range(all_task_results)
         /\ all_task_results' = Append(all_task_results, thr[t].result)
         /\ all_verifier_passes' = all_verifier_passes \o thr[t].passes
         /\ all_patches' = Append(all_patches, thr[t].result.patch)
    /\ collected' = collected + 1
    /\ pc' = IF collected + 1 = NumParallelTasks THEN "task5" ELSE "pool"
    /\ UNCHANGED <<runVars, outVars, thr, task5, decisions_non_null, final_obj>>
    /\ UNCHANGED auxVars

\* future.result() of the next task returns (script.py 2106-2124).
Collect ==
    /\ run = "loop" /\ pc = "pool" /\ collected < NumParallelTasks
    /\ thr[collected + 1].st = "done"
    /\ all_task_results' = Append(all_task_results, thr[collected + 1].result)
    /\ all_verifier_passes' = all_verifier_passes \o thr[collected + 1].passes
    /\ all_patches' = Append(all_patches, thr[collected + 1].result.patch)
    /\ collected' = collected + 1
    /\ pc' = IF collected + 1 = NumParallelTasks THEN "task5" ELSE "pool"
    /\ UNCHANGED <<runVars, outVars, thr, task5, decisions_non_null, final_obj>>
    /\ UNCHANGED auxVars

\* The exception of the future is swallowed and the loop goes on.
CollectRaises_mut ==
    /\ run = "loop" /\ pc = "pool" /\ collected < NumParallelTasks
    /\ thr[collected + 1].st = "failed"
    /\ collected' = collected + 1
    /\ pc' = IF collected + 1 = NumParallelTasks THEN "task5" ELSE "pool"
    /\ UNCHANGED <<runVars, outVars, thr, listVars, task5, decisions_non_null, final_obj>>
    /\ UNCHANGED auxVars

\* future.result() re-raises the thread's exception; leaving the with block
\* waits for the threads that still run.
CollectRaises ==
    /\ run = "loop" /\ pc = "pool" /\ collected < NumParallelTasks
    /\ thr[collected + 1].st = "failed"
    /\ pc' = "unwind"
    /\ UNCHANGED <<runVars, outVars, thr, collected, listVars, task5, decisions_non_null,
                   final_obj>>
    /\ UNCHANGED auxVars

Unwind ==
    /\ run = "loop" /\ pc = "unwind"
    /\ \A t \in Tasks : thr[t].st \in {"done", "failed"}
    /\ run' = "RuntimeError"
    /\ UNCHANGED <<idx, processed_entries, finals, outVars, pc, thr, collected, listVars,
                   task5, decisions_non_null, final_obj>>
    /\ UNCHANGED auxVars

\* task1_patch.get("study_type") or "unclear" (script.py 2128-2129)
Task5StudyType ==
    LET task1_patch_obj == OrElse(all_patches[1], EmptyMap)
    IN  OrElse(Get(task1_patch_obj, "study_type"), S("unclear")).v

\* Task 5 is skipped (script.py 2149-2150).
Task5Skip ==
    /\ run = "loop" /\ pc = "task5"
    /\ Task5StudyType \notin Task5StudyTypes
    /\ pc' = "merge"
    /\ UNCHANGED <<runVars, outVars, thr, collected, listVars, task5, decisions_non_null,
                   final_obj>>
    /\ UNCHANGED auxVars

\* The lists are extended once task 5 is verified (script.py 2145-2147).
Task5Done(result, passes) ==
    /\ all_task_results' = Append(all_task_results, result)
    /\ all_verifier_passes' = all_verifier_passes \o passes
    /\ all_patches' = Append(all_patches, result.patch)
    /\ pc' = "merge"

\* run_driver of task 5 returns (script.py 2132-2143).
Task5Extract ==
    /\ run = "loop" /\ pc = "task5"
    /\ Task5StudyType \in Task5StudyTypes
    /\ \E r \in AppraisalResults(Task5StudyType) :
         LET decisions == decisions_only_non_null(r.decisions)
         IN  IF decisions = <<>>
             THEN /\ Task5Done(r, <<>>)
                  /\ task5' = [NoTask5 EXCEPT !.result = r]
             ELSE /\ pc' = "verify5"
                  /\ task5' = [result |-> r, passes |-> <<>>,
                               chunks |-> chunk_list(decisions, VERIFIER_CHUNK_SIZE)]
                  /\ UNCHANGED listVars
    /\ UNCHANGED <<runVars, outVars, thr, collected, decisions_non_null, final_obj>>
    /\ UNCHANGED auxVars

Task5Verify ==
    /\ run = "loop" /\ pc = "verify5"
    /\ \E vpass \in VerifierResults(5, Head(task5.chunks)) :
         LET passes == Append(task5.passes, vpass)
         IN  /\ task5' = [task5 EXCEPT !.passes = passes, !.chunks = Tail(@)]
             /\ IF Tail(task5.chunks) = <<>>
                THEN Task5Done(task5.result, passes)
                ELSE UNCHANGED <<listVars, pc>>
    /\ UNCHANGED <<runVars, outVars, thr, collected, decisions_non_null, final_obj>>
    /\ UNCHANGED auxVars

\* _call_with_retries raises in task 5: the exception leaves
\* run_pipeline_for_pdf and, uncaught, run_pipeline.
Task5CallFails ==
    /\ run = "loop"
    /\ \/ pc = "task5" /\ Task5StudyType \in Task5StudyTypes
       \/ pc = "verify5"
    /\ run' = "RuntimeError"
    /\ UNCHANGED <<idx, processed_entries, finals, outVars, pc, thr, collected, listVars,
                   task5, decisions_non_null, final_obj>>
    /\ UNCHANGED auxVars


\* ---- merging (script.py 2152-2226) ----

RECURSIVE ApplyTaskPatches(_, _)
ApplyTaskPatches(working, patches) ==
    IF patches = <<>> THEN working
    ELSE LET w == ApplyTaskPatches(working, Front(patches))
         IN  IF Truthy(Last(patches)) THEN _apply_patch(w, Last(patches)) ELSE w

\* working[a][b] = v for maps that exist
SetIn2(obj, a, b, v) == SetKey(obj, a, SetKey(obj.kv[a], b, v))
SetSheetField(obj, sheet, field, v) ==
    SetIn2(obj, "record", "sheets",
           SetKey(obj.kv["record"].kv["sheets"], sheet,
                  SetKey(obj.kv["record"].kv["sheets"].kv[sheet], field, v)))

\* The paper id read from the pdf (extract_paper_id_from_pages) and the
\* answer of the PubMed lookup are inputs; the lookup is made only with a
\* hint, and its failure counts as "not found".
PaperIdHints == { [doi |-> Null, title |-> Null], [doi |-> S("10.1000/jx"), title |-> Null] }
PubmedAnswers == {Null, S("31234567")}

\* working.setdefault("paper_id", {})["pmid"] = None (script.py 2166-2169)
ResetPmid(w) ==
    LET w1 == IF ENABLE_PUBMED_LOOKUP
              THEN SetKey(w, "paper_id", SetKey(GetOr(w, "paper_id", EmptyMap), "pmid", Null))
              ELSE w
    IN  IF "paper_id" \in DOMAIN w1.kv THEN w1 ELSE SetKey(w1, "paper_id", EmptyMap)

\* script.py 2170-2173
ApplyHint(w, paper_id_hint, k) ==
    IF Truthy(paper_id_hint[k]) THEN SetIn2(w, "paper_id", k, paper_id_hint[k]) ELSE w

PmidOf(w) == Get(OrElse(Get(w, "paper_id"), EmptyMap), "pmid")

\* script.py 2176-2188
ApplyLookup(w, paper_id_hint, found_pmid) ==
    IF /\ ENABLE_PUBMED_LOOKUP
       /\ ~Truthy(PmidOf(w))
       /\ (Truthy(paper_id_hint.doi) \/ Truthy(paper_id_hint.title))
       /\ Truthy(found_pmid)
    THEN SetIn2(w, "paper_id", "pmid", found_pmid) ELSE w

\* script.py 2194-2197
EnsureRecord(w) == IF "record" \in DOMAIN w.kv THEN w ELSE SetKey(w, "record", EmptyMap)
EnsureSheets(w) ==
    IF IsDict(Get(w.kv["record"], "sheets")) THEN w
    ELSE SetIn2(w, "record", "sheets", EmptyMap)

\* script.py 2198-2201
EnsureSheet(w, name) ==
    IF IsNone(Get(w.kv["record"].kv["sheets"], name))
    THEN SetIn2(w, "record", "sheets", SetKey(w.kv["record"].kv["sheets"], name, EmptyMap))
    ELSE w

\* script.py 2203-2205
CopyPmid(w, pmid) ==
    IF ~IsNone(pmid)
    THEN SetSheetField(SetSheetField(w, "included_articles", "pmid", pmid),
                       "level_of_evidence", "pmid", pmid)
    ELSE w

\* script.py 2208-2211
CopyToLevel(w, k) ==
    LET inc == OrElse(w.kv["record"].kv["sheets"].kv["included_articles"], EmptyMap)
    IN  IF Get(inc, k) \notin {Null, S("")}
        THEN SetSheetField(w, "level_of_evidence", k, Get(inc, k)) ELSE w

EnsureStructure(w) ==
    EnsureSheet(EnsureSheet(EnsureSheets(EnsureRecord(w)), "included_articles"),
                "level_of_evidence")

IdentifyPaper(w, paper_id_hint, found_pmid) ==
    ApplyLookup(ApplyHint(ApplyHint(ResetPmid(w), paper_id_hint, "doi"),
                          paper_id_hint, "title"),
                paper_id_hint, found_pmid)

FinishWorking(w) ==
    CopyToLevel(CopyToLevel(CopyToLevel(CopyPmid(EnsureStructure(w), PmidOf(w)),
                                        "author"), "year"), "study_design")

\* script.py 2154-2211
MergeWorking(patches, verifier_passes, paper_id_hint, found_pmid) ==
    FinishWorking(IdentifyPaper(
        ApplySuggestedPatches(ApplyTaskPatches(_init_working_object, patches),
                              verifier_passes),
        paper_id_hint, found_pmid))

PmidPaths == {P_PMID, P_INC_PMID, P_LEV_PMID}
NotPmidPath(d) == d.path \notin PmidPaths

\* script.py 2214-2224
FinalDecisions(task_results) ==
    LET all_decisions == _collect_decisions(task_results)
        kept == IF ENABLE_PUBMED_LOOKUP
                THEN SelectSeq(all_decisions, NotPmidPath)
                ELSE all_decisions
    IN  decisions_only_non_null(kept)

\* The results are merged and the final object is built.
Merge ==
    /\ run = "loop" /\ pc = "merge"
    /\ \E paper_id_hint \in PaperIdHints, found_pmid \in PubmedAnswers :
         /\ (~Truthy(paper_id_hint.doi) /\ ~Truthy(paper_id_hint.title)) => IsNone(found_pmid)
         /\ \E working \in {MergeWorking(all_patches, all_verifier_passes,
                                         paper_id_hint, found_pmid)},
                  decisions \in {FinalDecisions(all_task_results)} :
                /\ decisions_non_null' = decisions
                /\ final_obj' = build_final_object(working, all_verifier_passes, decisions)
    /\ pc' = "write_xlsx"
    /\ UNCHANGED <<runVars, outVars, thr, collected, listVars, task5>>
    /\ UNCHANGED auxVars

\* ---- persistence (script.py 2228-2237) ----

WriteXlsx ==
    /\ run = "loop" /\ pc = "write_xlsx"
    /\ xlsx_writes' = Append(xlsx_writes, pdf_paths[idx])
    /\ pc' = "write_docx"
    /\ UNCHANGED <<runVars, docx_writes, audit_writes, thr, collected, listVars, task5,
                   decisions_non_null, final_obj>>
    /\ UNCHANGED auxVars

WriteDocx ==
    /\ run = "loop" /\ pc = "write_docx"
    /\ docx_writes' = Append(docx_writes, pdf_paths[idx])
    /\ pc' = "write_audit"
    /\ UNCHANGED <<runVars, xlsx_writes, audit_writes, thr, collected, listVars, task5,
                   decisions_non_null, final_obj>>
    /\ UNCHANGED auxVars

WriteAudit ==
    /\ run = "loop" /\ pc = "write_audit"
    /\ audit_writes' = Append(audit_writes, pdf_paths[idx])
    /\ pc' = "return"
    /\ UNCHANGED <<runVars, xlsx_writes, docx_writes, thr, collected, listVars, task5,
                   decisions_non_null, final_obj>>
    /\ UNCHANGED auxVars

\* run_pipeline_for_pdf returns; the loop records the pdf (script.py 2320-2334).
ReturnDoc ==
    /\ run = "loop" /\ pc = "return"
    /\ finals' = Append(finals, pdf_paths[idx])
    /\ processed_entries' = Append(processed_entries, pdf_paths[idx])
    /\ idx' = idx + 1
    /\ pc' = "idle"
    /\ UNCHANGED <<run, outVars, thr, collected, listVars, task5, decisions_non_null,
                   final_obj>>
    /\ UNCHANGED auxVars

Next ==
    \/ MissingPdf
    \/ SkipDoc
    \/ StartDoc
    \/ FinishRun
    \/ \E t \in Tasks : Extract(t)
    \/ \E t \in Tasks : CallFails(t)
    \/ \E t \in Tasks : VerifyChunk(t)
    \/ Collect
    \/ CollectRaises
    \/ Unwind
    \/ Task5Skip
    \/ Task5Extract
    \/ Task5Verify
    \/ Task5CallFails
    \/ Merge
    \/ WriteXlsx
    \/ WriteDocx
    \/ WriteAudit
    \/ ReturnDoc

Spec == Init /\ [][Next]_vars

TypeOK ==
    /\ run \in {"loop", "returned", "FileNotFoundError", "RuntimeError"}
    /\ idx \in 1..(NumDocs + 1)
    /\ pc \in {"idle", "pool", "unwind", "task5", "verify5", "merge", "write_xlsx",
               "write_docx", "write_audit", "return"}
    /\ collected \in 0..NumParallelTasks


\* ------------------------------------------------------------------------
\* deep_merge on the objects of the interpreter (script.py 291-300).  A dict
\* is an object of the heap and a value is a scalar or a reference to one,
\* so that an alias between the result and an argument is a state.
\* ------------------------------------------------------------------------
MaxMutations == 2

Ref(addr) == [t |-> "ref", a |-> addr]
\* isinstance(v, dict)
IsRef(v) == v.t = "ref"

\* The keys of a dict in the order a loop yields them.
RECURSIVE KeySeq(_)
KeySeq(keys) ==
    IF keys = {} THEN <<>>
    ELSE LET k == CHOOSE x \in keys : TRUE
         IN  <<k>> \o KeySeq(keys \ {k})

\* d[k] = v and del d[k]
SetItem(d, k, v) == [x \in DOMAIN d \cup {k} |-> IF x = k THEN v ELSE d[x]]
DelItem(d, k) == [x \in DOMAIN d \ {k} |-> d[x]]

\* A copy that returns its argument: the reference itself.
deepcopy_mut(h, v) == [h |-> h, v |-> v]

\* copy.deepcopy: a scalar is returned as it is, a dict is rebuilt at a new
\* address from the copies of its items.  The result is the heap after the
\* call and the value returned.
RECURSIVE deepcopy(_, _)
RECURSIVE CopyItems(_, _, _, _)
CopyItems(h, src, keys, d) ==
    IF keys = <<>> THEN [h |-> Append(h, d), v |-> Ref(Len(h) + 1)]
    ELSE LET c == deepcopy(h, h[src][Head(keys)])
         IN  CopyItems(c.h, src, Tail(keys), SetItem(d, Head(keys), c.v))

deepcopy(h, v) ==
    IF ~IsRef(v) THEN [h |-> h, v |-> v]
    ELSE CopyItems(h, v.a, KeySeq(DOMAIN h[v.a]), <<>>)

\* deep_merge(a, b) with out, its local, at address o; keys are the keys of
\* b still to be visited by the loop of script.py 295-299.
RECURSIVE deep_merge_obj(_, _, _)
RECURSIVE MergeItems(_, _, _, _)
MergeItems(h, o, b, keys) ==
    IF keys = <<>> THEN [h |-> h, v |-> Ref(o)]
    ELSE LET k == Head(keys)
             v == h[b][k]
             r == IF k \in DOMAIN h[o] /\ IsRef(h[o][k]) /\ IsRef(v)
                  THEN deep_merge_obj(h, h[o][k], v)
                  ELSE deepcopy(h, v)
         IN  MergeItems([r.h EXCEPT ![o] = SetItem(@, k, r.v)], o, b, Tail(keys))

deep_merge_obj(h, a, b) ==
    IF ~IsRef(a) \/ ~IsRef(b) THEN deepcopy(h, b)
    ELSE LET c == deepcopy(h, a)
         IN  MergeItems(c.h, c.v.a, b.a, KeySeq(DOMAIN h[b.a]))

\* The JSON value a scalar or reference stands for.
RECURSIVE Deref(_, _)
Deref(h, v) ==
    IF ~IsRef(v) THEN v
    ELSE M([k \in DOMAIN h[v.a] |-> Deref(h, h[v.a][k])])

\* The objects a value reaches.
RECURSIVE Reach(_, _)
Reach(h, v) ==
    IF ~IsRef(v) THEN {}
    ELSE {v.a} \cup UNION {Reach(h, h[v.a][k]) : k \in DOMAIN h[v.a]}

\* The objects of a JSON value, as json.loads or a dict display builds them.
RECURSIVE Store(_, _)
RECURSIVE StoreItems(_, _, _, _)
StoreItems(h, x, keys, d) ==
    IF keys = <<>> THEN [h |-> Append(h, d), v |-> Ref(Len(h) + 1)]
    ELSE LET c == Store(h, x.kv[Head(keys)])
         IN  StoreItems(c.h, x, Tail(keys), SetItem(d, Head(keys), c.v))

Store(h, x) ==
    IF ~IsDict(x) THEN [h |-> h, v |-> x]
    ELSE StoreItems(h, x, KeySeq(DOMAIN x.kv), <<>>)

\* Arguments of deep_merge: a scalar, the empty dict, flat dicts and dicts
\* nested as a working object and its patches are (study_type beside
\* record/sheets/<sheet>/<field>).
MergeInputs ==
    { S("rct"),
      EmptyMap,
      M([study_type |-> S("rct")]),
      M([study_type |-> S("cohort"), record |-> Null]),
      M([record |-> M([sheets |-> Null])]),
      M([study_type |-> S("rct"),
         record |-> M([sheets |-> M([included_articles |-> M([n_pts |-> N(10)])])])]),
      M([record |-> M([sheets |-> M([included_articles |-> M([n_pts |-> N(12),
                                                             author |-> S("Smith")]),
                                     rct_appraisal |-> Null])])]),
      M([record |-> M([sheets |-> M([rct_appraisal |-> M([q1_randomized |-> S("1")])])])]) }

MutationKeys == {"study_type", "record", "sheets", "n_pts"}

\* A caller holds two objects, or one object twice, and is about to merge.
InitMerge ==
    /\ PipelineOff
    /\ AbbaOff
    /\ FnOff
    /\ \E x \in MergeInputs, y \in MergeInputs, same \in BOOLEAN :
         /\ same => x = y
         /\ \E sa \in {Store(<<>>, x)} :
              \E sb \in {IF same THEN sa ELSE Store(sa.h, y)} :
                 /\ heap = sb.h
                 /\ arg_a = sa.v
                 /\ arg_b = sb.v
         /\ snapshot = [a |-> x, b |-> y]
    /\ out = Null
    /\ mutations = 0
    /\ mphase = "ready"

\* out = deep_merge(a, b)
CallDeepMerge ==
    /\ mphase = "ready"
    /\ \E r \in {deep_merge_obj(heap, arg_a, arg_b)} :
         /\ heap' = r.h
         /\ out' = r.v
    /\ mphase' = "merged"
    /\ UNCHANGED <<arg_a, arg_b, snapshot, mutations, pipelineVars, abbaVars, fnVars>>

\* The caller assigns a scalar to a key of a dict of the result.
SetInResult ==
    /\ mphase = "merged" /\ mutations < MaxMutations
    /\ \E addr \in Reach(heap, out), k \in MutationKeys :
         heap' = [heap EXCEPT ![addr] = SetItem(@, k, S("changed"))]
    /\ mutations' = mutations + 1
    /\ UNCHANGED <<arg_a, arg_b, out, snapshot, mphase, pipelineVars, abbaVars, fnVars>>

\* The caller deletes a key of a dict of the result.
DelInResult ==
    /\ mphase = "merged" /\ mutations < MaxMutations
    /\ \E addr \in Reach(heap, out) : \E k \in DOMAIN heap[addr] :
         heap' = [heap EXCEPT ![addr] = DelItem(@, k)]
    /\ mutations' = mutations + 1
    /\ UNCHANGED <<arg_a, arg_b, out, snapshot, mphase, pipelineVars, abbaVars, fnVars>>

NextMerge ==
    \/ CallDeepMerge
    \/ SetInResult
    \/ DelInResult

SpecMerge == InitMerge /\ [][NextMerge]_vars


\* ------------------------------------------------------------------------
\* Leaf Enumeration (spec 4.5): /study_type, then every key of every sheet
\* that is a populated group, null-valued keys included.  The fields of a
\* sheet are scalars, so the walk ends one level below the sheet.
\* ------------------------------------------------------------------------
leaf_paths(record) ==
    LET sheets == OrElse(Get(record, "sheets"), EmptyMap)
        groups == {sh \in DOMAIN sheets.kv : IsDict(sheets.kv[sh])}
    IN  {<<"study_type">>}
        \cup UNION { {SheetPath(sh, f) : f \in DOMAIN sheets.kv[sh].kv} : sh \in groups }

\* ------------------------------------------------------------------------
\* Cross-Driver Comparator (ABBA) and supervisor adjudication (spec 4.7)
\* ------------------------------------------------------------------------
\* The comparison payload of a report: paper id, study type and record.
AbbaPayload(study_type, author, n_pts) ==
    M([paper_id |-> M([pmid |-> S("111"), doi |-> Null, title |-> Null]),
       study_type |-> study_type,
       record |-> M([sheets |-> M([included_articles |->
                        M([author |-> author, n_pts |-> n_pts])])])])

\* A report whose extractor left n_pts out of the record.
AbbaPayloadShort(study_type, author) ==
    M([paper_id |-> M([pmid |-> S("111"), doi |-> Null, title |-> Null]),
       study_type |-> study_type,
       record |-> M([sheets |-> M([included_articles |-> M([author |-> author])])])])

AbbaReports ==
    { AbbaPayload(st, au, n) :
        st \in {S("rct"), S("cohort")},
        au \in {S("Smith"), S(" Smith ")},
        n \in {N(200), N(202), N(204), S("200 "), Null} }
    \cup { AbbaPayloadShort(S("rct"), S("Smith")) }

PickStatuses == {"PICK_A", "PICK_B", "UNSURE"}

\* The pointer of a leaf path.
PointerOf(parts) == CHOOSE p \in Paths : PathParts[p] = parts

LeafPointers(payload) == {PointerOf(lp) : lp \in leaf_paths(Get(payload, "record"))}

\* The paths compared: A's leaf paths, then B's new ones, then the three
\* paper_id subfields.
ComparedPaths(a, b) ==
    KeySeq(LeafPointers(a)) \o KeySeq(LeafPointers(b) \ LeafPointers(a))
        \o <<P_PMID, P_DOI, P_TITLE>>

Mismatch(path, a, b) == [path |-> path, a |-> a, b |-> b]

\* The paths at which values_match rejects the two values, in order.
RECURSIVE FindMismatches(_, _, _)
FindMismatches(paths, a, b) ==
    IF paths = <<>> THEN <<>>
    ELSE LET va == json_pointer_get(a, Head(paths))
             vb == json_pointer_get(b, Head(paths))
             rest == FindMismatches(Tail(paths), a, b)
         IN  IF values_match(va, vb) THEN rest
             ELSE <<Mismatch(Head(paths), va, vb)>> \o rest

MismatchPaths(ms) == [i \in DOMAIN ms |-> ms[i].path]

\* Two pipelines have produced their reports of one document.
InitAbba ==
    /\ PipelineOff
    /\ MergeOff
    /\ FnOff
    /\ report_a \in AbbaReports
    /\ report_b \in AbbaReports
    /\ adjudication_enabled \in BOOLEAN
    /\ abba_pc = "compare"
    /\ mismatches = <<>>
    /\ unresolved = <<>>
    /\ picks = <<>>
    /\ abba_working = Null

\* The reports are compared.  Without a mismatch A's values are final; with
\* mismatches and no adjudication every mismatch stays unresolved and the
\* output is refused.
AbbaCompare ==
    /\ abba_pc = "compare"
    /\ \E ms \in {FindMismatches(ComparedPaths(report_a, report_b), report_a, report_b)} :
         /\ abba_working' = report_a
         /\ IF ms = <<>>
            THEN /\ abba_pc' = "write"
                 /\ UNCHANGED <<mismatches, unresolved>>
            ELSE IF adjudication_enabled
            THEN /\ abba_pc' = "adjudicate"
                 /\ mismatches' = ms
                 /\ UNCHANGED unresolved
            ELSE /\ abba_pc' = "refused"
                 /\ mismatches' = <<>>
                 /\ unresolved' = MismatchPaths(ms)
    /\ UNCHANGED <<report_a, report_b, adjudication_enabled, picks, pipelineVars, mergeVars, fnVars>>

\* One adjudication call: PICK_A or PICK_B overwrites the path in the
\* working copy, UNSURE leaves the mismatch unresolved.  After the last
\* call the output is refused if a mismatch is unresolved.
Adjudicate ==
    /\ abba_pc = "adjudicate"
    /\ \E status \in PickStatuses :
         LET m == Head(mismatches)
             left == IF status = "UNSURE" THEN Append(unresolved, m.path) ELSE unresolved
         IN  /\ picks' = (m.path :> status) @@ picks
             /\ unresolved' = left
             /\ abba_working' =
                  IF status = "PICK_A" THEN json_pointer_set(abba_working, m.path, m.a)
                  ELSE IF status = "PICK_B" THEN json_pointer_set(abba_working, m.path, m.b)
                  ELSE abba_working
             /\ mismatches' = Tail(mismatches)
             /\ abba_pc' = IF Tail(mismatches) # <<>> THEN "adjudicate"
                           ELSE IF left # <<>> THEN "refused" ELSE "write"
    /\ UNCHANGED <<report_a, report_b, adjudication_enabled, pipelineVars, mergeVars, fnVars>>

\* The reconciled values are handed to the spreadsheet and report writers.
AbbaWrite ==
    /\ abba_pc = "write"
    /\ abba_pc' = "written"
    /\ UNCHANGED <<report_a, report_b, adjudication_enabled, mismatches, unresolved, picks,
                   abba_working, pipelineVars, mergeVars, fnVars>>

NextAbba ==
    \/ AbbaCompare
    \/ Adjudicate
    \/ AbbaWrite

SpecAbba == InitAbba /\ [][NextAbba]_vars


\* ------------------------------------------------------------------------
\* Callers of deep_merge (script.py 291-300) by value: a base, a patch, and
\* the patch applied to the result again
\* ------------------------------------------------------------------------
MaxApplications == 2

\* Bases and patches: scalars, lists, and dicts of up to three levels that
\* share keys, with scalars, nulls, lists and dicts below the same key.
MergeValues ==
    { Null, N(5), S("rct"), L(<<>>), L(<<N(1)>>), L(<<N(1), N(2)>>), EmptyMap,
      M("a" :> N(1)),
      M("a" :> Null),
      M("a" :> L(<<N(1)>>)),
      M("a" :> L(<<N(2), N(3)>>)),
      M("a" :> M("x" :> N(1))),
      M("a" :> M("y" :> N(2))),
      M("a" :> M("x" :> L(<<N(9)>>))),
      M("a" :> M("x" :> M("z" :> N(1)))),
      M("a" :> M("x" :> M("w" :> Null))),
      M("b" :> EmptyMap),
      M(("a" :> M("x" :> N(1))) @@ ("b" :> N(2))) }

InitDeepMerge ==
    /\ PipelineOff
    /\ MergeOff
    /\ AbbaOff
    /\ fn = "deep_merge"
    /\ args \in MergeValues \X MergeValues
    /\ ret = <<>>

\* merged = deep_merge(merged, patch), the first time on the base
ApplyPatch ==
    /\ fn = "deep_merge"
    /\ Len(ret) < MaxApplications
    /\ ret' = Append(ret, deep_merge(IF ret = <<>> THEN args[1] ELSE Last(ret), args[2]))
    /\ UNCHANGED <<fn, args, pipelineVars, mergeVars, abbaVars>>

NextDeepMerge == ApplyPatch

SpecDeepMerge == InitDeepMerge /\ [][NextDeepMerge]_vars

\* ------------------------------------------------------------------------
\* Callers of dedupe_decisions (paperchecker_utils.py 134-146): two task
\* results with up to MaxDecisions decisions between them
\* ------------------------------------------------------------------------
MaxDecisions == 3

\* The paths of the decisions; "" stands for a decision without a path
\* (`not path` holds for a missing, null or empty path alike).
DedupePaths == {"/a", "/b", ""}
DedupeValues == {N(1), N(2), N(3)}

DedupeDecisions == {Decision(p, v, "", Null) : p \in DedupePaths, v \in DedupeValues}

DecisionLists(n) == UNION {[1..len -> DedupeDecisions] : len \in 0..n}

InitDedupe ==
    /\ PipelineOff
    /\ MergeOff
    /\ AbbaOff
    /\ fn = "dedupe_decisions"
    /\ \E ds \in DecisionLists(MaxDecisions) : \E cut \in 0..Len(ds) :
         args = <<TaskResult(Null, SubSeq(ds, 1, cut)),
                  TaskResult(Null, SubSeq(ds, cut + 1, Len(ds)))>>
    /\ ret = <<>>

\* decisions = dedupe_decisions(all_task_results)
CallDedupe ==
    /\ fn = "dedupe_decisions"
    /\ ret = <<>>
    /\ ret' = <<dedupe_decisions(args)>>
    /\ UNCHANGED <<fn, args, pipelineVars, mergeVars, abbaVars>>

NextDedupe == CallDedupe

SpecDedupe == InitDedupe /\ [][NextDedupe]_vars

\* ------------------------------------------------------------------------
\* Callers of json_pointer_get and json_pointer_set (paperchecker_utils.py
\* 72-121) with a pointer given as text: a read, or a write and a read back
\* ------------------------------------------------------------------------
\* The objects addressed: a scalar, lists and dicts as root, a list in a
\* dict and a dict in a list, keys that are digits, empty, "/" and "~".
PointerRecords ==
    { N(5),
      EmptyMap,
      L(<<N(1), N(2)>>),
      L(<<M("a" :> N(1)), N(2)>>),
      M("a" :> N(5)),
      M("a" :> Null),
      M("a" :> L(<<N(1), N(2)>>)),
      M(("a" :> M("a" :> N(1))) @@ ("0" :> N(2)) @@ ("1" :> N(3))),
      M(("" :> N(7)) @@ ("/" :> N(8)) @@ ("~" :> N(9)) @@ ("~1" :> N(10))) }

PointerValues == {S("v")}

PointerTexts == CharSeqs(PointerAlphabet, 0, MaxPointerLen)

InitPointer ==
    /\ PipelineOff
    /\ MergeOff
    /\ AbbaOff
    /\ fn = "json_pointer"
    /\ args \in [obj : PointerRecords, pointer : PointerTexts, value : PointerValues]
    /\ ret = <<>>

\* The object as the calls so far have left it.
PointerObj == IF ret = <<>> THEN args.obj ELSE Last(ret).obj

\* json_pointer_set(obj, pointer, value): obj is changed in place, or the
\* call raises and obj is as the assignments made before the raise left it.
CallSet ==
    /\ fn = "json_pointer"
    /\ ret = <<>>
    /\ \E r \in {json_pointer_set_text(args.obj, args.pointer, args.value)},
          left \in {json_pointer_set_left(args.obj, args.pointer, args.value)} :
         ret' = <<[op |-> "set", raised |-> r = ValueError,
                   obj |-> IF r = ValueError THEN left ELSE r, result |-> Null]>>
    /\ UNCHANGED <<fn, args, pipelineVars, mergeVars, abbaVars>>

\* json_pointer_get(obj, pointer), on the object as it is
CallGet ==
    /\ fn = "json_pointer"
    /\ \A i \in DOMAIN ret : ret[i].op # "get"
    /\ \E r \in {json_pointer_get_text(PointerObj, args.pointer)} :
         ret' = Append(ret, [op |-> "get", raised |-> r = ValueError,
                             obj |-> PointerObj, result |-> r])
    /\ UNCHANGED <<fn, args, pipelineVars, mergeVars, abbaVars>>

NextPointer ==
    \/ CallSet
    \/ CallGet

SpecPointer == InitPointer /\ [][NextPointer]_vars

\* ------------------------------------------------------------------------
\* Callers of values_match (paperchecker_utils.py 34-46) with tolerances
\* ------------------------------------------------------------------------
\* The operands: null, numbers around 100 and around 0, numerals and other
\* strings with and without blanks, a list.
MatchValues ==
    { Null, N(0), N(1), N(-1), N(99), N(100), N(101), N(111), N(200), N(202),
      S("200"), S("200 "), S("111"), S("1"), S("Smith"), S(" Smith "), S(""),
      L(<<N(1)>>) }

\* The tolerances, in parts of TolScale: 0, 0.01, 1 and 2 absolute; 0,
\* 0.01 and 0.5 relative.
AbsTolerances == {0, NUMERIC_TOL_ABS, 100, 200}
RelTolerances == {0, NUMERIC_TOL_REL, 50}

InitMatch ==
    /\ PipelineOff
    /\ MergeOff
    /\ AbbaOff
    /\ fn = "values_match"
    /\ args \in [a : MatchValues, b : MatchValues,
                 abs_tol : AbsTolerances, rel_tol : RelTolerances]
    /\ ret = <<>>

\* values_match(a, b, abs_tol, rel_tol)
CallValuesMatch ==
    /\ fn = "values_match"
    /\ ret = <<>>
    /\ ret' = <<values_match_tol(args.a, args.b, args.abs_tol, args.rel_tol)>>
    /\ UNCHANGED <<fn, args, pipelineVars, mergeVars, abbaVars>>

NextMatch == CallValuesMatch

SpecMatch == InitMatch /\ [][NextMatch]_vars

\* ------------------------------------------------------------------------
\* Callers of normalize_pmid (paperchecker_utils.py 49-69): a cell value or
\* a key, of any of the types a workbook cell or a JSON value has
\* ------------------------------------------------------------------------
MaxPmidLen == 5

PmidAlphabet == {" ", ".", "0", "1", "a", SUPERSCRIPT_TWO}
PmidNumbers == {0, 1, 7, 10, 11, 101, 12345678}

PmidValues ==
    {Null, B(TRUE), B(FALSE)}
        \cup {N(n) : n \in PmidNumbers}
        \cup {F(n, tenths) : n \in PmidNumbers, tenths \in {0, 5}}
        \cup {Text(chars) : chars \in CharSeqs(PmidAlphabet, 0, MaxPmidLen)}

InitPmid ==
    /\ PipelineOff
    /\ MergeOff
    /\ AbbaOff
    /\ fn = "normalize_pmid"
    /\ args \in [value : PmidValues]
    /\ ret = <<>>

\* normalize_pmid(value)
CallNormalizePmid ==
    /\ fn = "normalize_pmid"
    /\ ret = <<>>
    /\ ret' = <<normalize_pmid(args.value)>>
    /\ UNCHANGED <<fn, args, pipelineVars, mergeVars, abbaVars>>

NextPmid == CallNormalizePmid

SpecPmid == InitPmid /\ [][NextPmid]_vars

\* ------------------------------------------------------------------------
\* Callers of compute_scores_inplace (script.py 628-657): a final object
\* with one appraisal sheet of the groups scored by counting "Yes"
\* ------------------------------------------------------------------------
YesGroups == {"case_series_appraisal", "systematic_appraisal"}

\* The first two questions of each group (script.py 1034-1035, 1074-1075).
GroupQuestions(group) ==
    IF group = "case_series_appraisal"
    THEN <<"q1_inclusion_criteria_clear", "q2_condition_measured_standard">>
    ELSE <<"q1_pico", "q2_protocol_predefined">>

\* Answers: the values of APPRAISAL_YNUA_ENUM (script.py 284), spellings a
\* patch without the enum could carry, and values that are not strings.
Answers ==
    {Null, S("Yes"), S(" Yes "), S("yes"), S("y"), S("true"), S("No"),
     S("Unclear"), N(1), B(TRUE)}

ScoreSheet(group, a1, a2, author, total) ==
    M((GroupQuestions(group)[1] :> a1) @@ (GroupQuestions(group)[2] :> a2)
        @@ [author |-> author, total_score |-> total])

ScoreInput(sheet_name, sheet) == M([record |-> M([sheets |-> M((sheet_name :> sheet))])])

InitScores ==
    /\ PipelineOff
    /\ MergeOff
    /\ AbbaOff
    /\ fn = "compute_scores_inplace"
    /\ \E group \in YesGroups, a1 \in Answers, a2 \in Answers,
          author \in {Null, S("Yes")}, total \in {Null, N(7)} :
            args \in {[group |-> group,
                       final_obj |-> ScoreInput(group, ScoreSheet(group, a1, a2, author, total))],
                      [group |-> group, final_obj |-> ScoreInput(group, Null)]}
    /\ ret = <<>>

\* compute_scores_inplace(final_obj): ret holds the object after the call
CallComputeScores ==
    /\ fn = "compute_scores_inplace"
    /\ ret = <<>>
    /\ ret' = <<compute_scores_inplace(args.final_obj)>>
    /\ UNCHANGED <<fn, args, pipelineVars, mergeVars, abbaVars>>

NextScores == CallComputeScores

SpecScores == InitScores /\ [][NextScores]_vars

\* ------------------------------------------------------------------------
\* verify_decisions (script.py 1925-1946) with its verifier calls on
\* record: the pages, the working record and the chunk each call receives
\* ------------------------------------------------------------------------
MaxVerifyDecisions == 3
MaxChunkSize == 2
MaxPages == 2

\* extract_pdf_pages (script.py 668): page_index counts from 0.
Pages(n) == [i \in 1..n |-> [page_index |-> i - 1, text |-> "text"]]

\* The number make_task_view prints for a page in the extractor's view:
\* "--- PAGE {page_index + 1}" (script.py 777).
PageLabel(p) == p.page_index + 1

\* {d.get("page") for d in ch if d.get("page") is not None}
page_numbers(ch) == {ch[i].page.v : i \in {j \in DOMAIN ch : ~IsNone(ch[j].page)}}

\* [p for p in pages if p.get("page_index") in page_set]
RECURSIVE PagesIn(_, _)
PagesIn(pages, page_set) ==
    IF pages = <<>> THEN <<>>
    ELSE IF Head(pages).page_index \in page_set
         THEN <<Head(pages)>> \o PagesIn(Tail(pages), page_set)
         ELSE PagesIn(Tail(pages), page_set)

_select_pages(pages, numbers) ==
    IF pages = <<>> THEN <<>>
    ELSE IF numbers = {} THEN pages
    ELSE IF PagesIn(pages, numbers) = <<>> THEN pages
    ELSE PagesIn(pages, numbers)

\* The arguments of one call of verifier_fn and what it returned.
VerifierCall(verifier_pages, working_json, ch, vpass) ==
    [verifier_pages |-> verifier_pages, working_json |-> working_json,
     chunk |-> ch, vpass |-> vpass]

\* The decisions of a task result: two paths, with and without a page
\* hint, and one whose evidence quotes the page header of the view.
VerifyDecisions ==
    {Decision(path, S("rct"), "", page) :
        path \in {P_STUDY_TYPE, P_AUTHOR}, page \in {Null} \cup {N(n) : n \in 1..MaxPages}}
      \cup {Decision(P_STUDY_TYPE, S("rct"), EV_PAGE1, Null)}

\* The patch of the task result under verification.
VerifyPatch ==
    TaskPatch(Null, S("rct"),
        [included_articles |-> M([author |-> S("rct")]),
         level_of_evidence |-> M([level_of_evidence |-> Null])])

\* What the verifier may answer for a chunk: it agrees, or it disagrees
\* and suggests a patch.
ChunkAnswers(ch) ==
    {VerifierPass(ReviewsFor(ch, "AGREE"), EmptyMap),
     VerifierPass(ReviewsFor(ch, "DISAGREE"), M([study_type |-> S("cohort")]))}

\* run_task_with_verify hands over the initial working object with the
\* pruned patch of the task applied (script.py 1967-1971).  The chunk size
\* VERIFIER_CHUNK_SIZE is drawn from sizes that split the lists of the
\* model.
InitVerify ==
    /\ PipelineOff
    /\ MergeOff
    /\ AbbaOff
    /\ fn = "verify_decisions"
    /\ \E decisions \in SeqsUpTo(VerifyDecisions, MaxVerifyDecisions), size \in 1..MaxChunkSize,
          full_pages \in {<<>>, Pages(MaxPages)} :
            args = [task_result |-> TaskResult(VerifyPatch, decisions),
                    working_snapshot |->
                        _apply_patch(_init_working_object,
                                     _prune_redundant_patch_fields(VerifyPatch)),
                    full_pages |-> full_pages,
                    chunk_size |-> size]
    /\ ret = <<>>

\* chunks = chunk_list(decisions, VERIFIER_CHUNK_SIZE)
VerifyChunks ==
    chunk_list(decisions_only_non_null(args.task_result.decisions), args.chunk_size)

\* One pass of the loop, with the patch of the pass folded into the record
\* the next call receives.
VerifyNextChunk_folding ==
    /\ fn = "verify_decisions"
    /\ Len(ret) < Len(VerifyChunks)
    /\ \E ch \in {VerifyChunks[Len(ret) + 1]} :
         \E vpass \in ChunkAnswers(ch) :
            ret' = Append(ret,
                      VerifierCall(_select_pages(args.full_pages, page_numbers(ch)),
                                   sanitize_for_model_input(
                                       ApplySuggestedPatches(args.working_snapshot,
                                           [i \in DOMAIN ret |-> ret[i].vpass])),
                                   ch, vpass))
    /\ UNCHANGED <<fn, args, pipelineVars, mergeVars, abbaVars>>

\* One pass of the loop over the chunks (script.py 1935-1945): working_json
\* is the value computed before the loop (1933).
VerifyNextChunk ==
    /\ fn = "verify_decisions"
    /\ Len(ret) < Len(VerifyChunks)
    /\ \E ch \in {VerifyChunks[Len(ret) + 1]} :
         \E vpass \in ChunkAnswers(ch) :
            ret' = Append(ret,
                      VerifierCall(_select_pages(args.full_pages, page_numbers(ch)),
                                   sanitize_for_model_input(args.working_snapshot),
                                   ch, vpass))
    /\ UNCHANGED <<fn, args, pipelineVars, mergeVars, abbaVars>>

NextVerify == VerifyNextChunk

SpecVerify == InitVerify /\ [][NextVerify]_vars

\* ------------------------------------------------------------------------
\* Callers of compile_critical_decision_report (script.py 1726-1776): an
\* ordered list of verifier passes whose reviews may repeat a path
\* ------------------------------------------------------------------------
MaxPasses == 2

\* The reviews a verifier may return under VERIFIER_SCHEMA (script.py
\* 1331-1347), where proposed_value is required and may be null.
ReportReviews ==
    {Review(P_STUDY_TYPE, "AGREE", S("rct"), Null),
     Review(P_STUDY_TYPE, "AGREE", S("rct"), S("cohort")),
     Review(P_STUDY_TYPE, "DISAGREE", S("rct"), S("cohort")),
     Review(P_STUDY_TYPE, "UNSURE", S("rct"), Null),
     Review(P_N_PTS, "DISAGREE", N(10), Null)}

ReportDecisions ==
    {<<>>,
     <<Decision(P_STUDY_TYPE, S("rct"), "", Null)>>,
     <<Decision(P_N_PTS, N(10), "", Null)>>,
     <<Decision(P_STUDY_TYPE, S("rct"), "", Null), Decision(P_N_PTS, N(10), "", Null)>>}

\* The explanation of a review tells the pass and the place it came from.
Explained(reviews, i) ==
    [r \in DOMAIN reviews |->
        [reviews[r] EXCEPT !.explanation =
            "review " \o ToString(r) \o " of pass " \o ToString(i)]]

ExplainedPasses(review_lists) ==
    [i \in DOMAIN review_lists |-> VerifierPass(Explained(review_lists[i], i), EmptyMap)]

InitReport ==
    /\ PipelineOff
    /\ MergeOff
    /\ AbbaOff
    /\ fn = "compile_critical_decision_report"
    /\ \E review_lists \in SeqsUpTo(SeqsUpTo(ReportReviews, 2), MaxPasses),
          decisions \in ReportDecisions :
            args = [verifier_passes |-> ExplainedPasses(review_lists),
                    decisions_non_null |-> decisions,
                    final_driver |-> _apply_patch(_init_working_object,
                                         M([study_type |-> S("rct")]))]
    /\ ret = <<>>

\* critical_report, issues = compile_critical_decision_report(...)
CallCompileReport ==
    /\ fn = "compile_critical_decision_report"
    /\ ret = <<>>
    /\ ret' = <<compile_critical_decision_report(args.verifier_passes,
                                                 args.decisions_non_null,
                                                 args.final_driver)>>
    /\ UNCHANGED <<fn, args, pipelineVars, mergeVars, abbaVars>>

NextReport == CallCompileReport

SpecReport == InitReport /\ [][NextReport]_vars

\* ------------------------------------------------------------------------
\* The thread pool of one document (script.py 2083-2164), with the thread
\* that finished first on record
\* ------------------------------------------------------------------------
\* run_pipeline_for_pdf has submitted the four tasks of the first pdf.
InitPool ==
    /\ run = "loop"
    /\ idx = 1
    /\ processed_entries = <<>>
    /\ finals = <<>>
    /\ xlsx_writes = <<>>
    /\ docx_writes = <<>>
    /\ audit_writes = <<>>
    /\ pc = "pool"
    /\ thr = [t \in Tasks |-> Pending]
    /\ collected = 0
    /\ all_task_results = <<>>
    /\ all_verifier_passes = <<>>
    /\ all_patches = <<>>
    /\ task5 = NoTask5
    /\ decisions_non_null = <<>>
    /\ final_obj = NoFinal
    /\ MergeOff
    /\ AbbaOff
    /\ fn = "pool"
    /\ args = <<>>
    /\ ret = <<>>

\* ret holds the task whose run_task_with_verify returned first.
Finished(t) == IF ret = <<>> /\ thr'[t].st = "done" THEN <<t>> ELSE ret

PoolExtract(t) ==
    /\ ExtractStep(t)
    /\ ret' = Finished(t)
    /\ UNCHANGED <<fn, args, mergeVars, abbaVars>>

PoolVerifyChunk(t) ==
    /\ VerifyChunkStep(t)
    /\ ret' = Finished(t)
    /\ UNCHANGED <<fn, args, mergeVars, abbaVars>>

NextPool ==
    \/ \E t \in Tasks : PoolExtract(t)
    \/ \E t \in Tasks : PoolVerifyChunk(t)
    \/ Collect
    \/ Task5Skip
    \/ Task5Extract
    \/ Task5Verify
    \/ Merge

SpecPool == InitPool /\ [][NextPool]_vars

\* ------------------------------------------------------------------------
\* _call_with_retries (script.py 1393-1405), statement by statement.  Times
\* are in hundredths of a second.
\* ------------------------------------------------------------------------
LLM_MAX_RETRIES == 3
BackoffScale == 100
LLM_BACKOFF_SECONDS == 200
LLM_BACKOFF_JITTER == 25

\* What fn() may do: return a value or raise an exception.
CallReturns == {"json 1", "json 2"}
CallExceptions == {"TimeoutError", "JSONDecodeError"}

\* random.uniform(0, LLM_BACKOFF_JITTER): some values of the interval, its
\* ends included.
Jitters == {0, 1, 13, LLM_BACKOFF_JITTER}

\* The same pause before every attempt.
Backoff_constant(attempt) == LLM_BACKOFF_SECONDS

\* LLM_BACKOFF_SECONDS * (2 ** (attempt - 1))
Backoff(attempt) == LLM_BACKOFF_SECONDS * 2 ^ (attempt - 1)

\* The frame of the call: the loop variable, last_exc, and on record the
\* number of calls of fn made and the pauses slept.
Frame(at, attempt, last_exc, calls, slept) ==
    [at |-> at, attempt |-> attempt, last_exc |-> last_exc, calls |-> calls,
     slept |-> slept]

InitRetry ==
    /\ PipelineOff
    /\ MergeOff
    /\ AbbaOff
    /\ fn = "_call_with_retries"
    /\ args = Frame("call", 1, "None", 0, <<>>)
    /\ ret = <<>>

\* return fn()
CallSucceeds ==
    /\ fn = "_call_with_retries"
    /\ args.at = "call"
    /\ args.attempt <= LLM_MAX_RETRIES
    /\ \E v \in CallReturns :
         ret' = <<[t |-> "return", v |-> v]>>
    /\ args' = [args EXCEPT !.at = "done", !.calls = @ + 1]
    /\ UNCHANGED <<fn, pipelineVars, mergeVars, abbaVars>>

\* fn() raises: last_exc = exc, and the loop is left at the last attempt.
CallRaises ==
    /\ fn = "_call_with_retries"
    /\ args.at = "call"
    /\ args.attempt <= LLM_MAX_RETRIES
    /\ \E exc \in CallExceptions :
         args' = [args EXCEPT !.last_exc = exc,
                              !.calls = @ + 1,
                              !.at = IF args.attempt >= LLM_MAX_RETRIES
                                     THEN "raise" ELSE "sleep"]
    /\ UNCHANGED <<fn, ret, pipelineVars, mergeVars, abbaVars>>

\* time.sleep(backoff + jitter), then the next attempt
Sleep ==
    /\ fn = "_call_with_retries"
    /\ args.at = "sleep"
    /\ \E jitter \in Jitters :
         args' = [args EXCEPT !.slept = Append(@, Backoff(args.attempt) + jitter),
                              !.attempt = @ + 1,
                              !.at = "call"]
    /\ UNCHANGED <<fn, ret, pipelineVars, mergeVars, abbaVars>>

\* raise RuntimeError(...) from last_exc
RaiseRuntimeError ==
    /\ fn = "_call_with_retries"
    /\ args.at = "raise"
    /\ ret' = <<[t |-> "RuntimeError", cause |-> args.last_exc]>>
    /\ args' = [args EXCEPT !.at = "done"]
    /\ UNCHANGED <<fn, pipelineVars, mergeVars, abbaVars>>

NextRetry ==
    \/ CallSucceeds
    \/ CallRaises
    \/ Sleep
    \/ RaiseRuntimeError

SpecRetry == InitRetry /\ [][NextRetry]_vars

\* fn() returns or raises and time.sleep returns: a step that can be taken
\* is taken.
SpecRetryLive == SpecRetry /\ WF_vars(NextRetry)

\* ------------------------------------------------------------------------
\* The merge of run_pipeline_for_pdf (script.py 2152-2226) on lists in
\* which the extractor or a verifier supplies a PMID
\* ------------------------------------------------------------------------
\* Suggested patches of _suggested_patch_schema (script.py 1149-1170): the
\* paper id and the sheets may carry a pmid.
PmidPatches ==
    {EmptyMap,
     M([paper_id |-> M([pmid |-> N(222)])]),
     M([record |-> M([sheets |-> M(IncOnly([pmid |-> N(222)]))])]),
     M([study_type |-> S("cohort")])}

\* The patch of task 1, with and without a PMID of the extractor.
PmidTaskPatches ==
    {TaskPatch(pmid, S("rct"),
         [included_articles |-> M([author |-> S("Smith")]),
          level_of_evidence |-> M([level_of_evidence |-> Null])]) : pmid \in {Null, N(111)}}

InitPaperId ==
    /\ PipelineOff
    /\ MergeOff
    /\ AbbaOff
    /\ fn = "run_pipeline_for_pdf (merge)"
    /\ \E task_patch \in PmidTaskPatches, patches \in SeqsUpTo(PmidPatches, 2),
          paper_id_hint \in PaperIdHints, found_pmid \in PubmedAnswers :
            /\ (~Truthy(paper_id_hint.doi) /\ ~Truthy(paper_id_hint.title))
                    => IsNone(found_pmid)
            /\ args = [all_patches |-> <<_prune_redundant_patch_fields(task_patch)>>,
                       all_verifier_passes |->
                           [i \in DOMAIN patches |-> VerifierPass(<<>>, patches[i])],
                       paper_id_hint |-> paper_id_hint,
                       found_pmid |-> found_pmid]
    /\ ret = <<>>

\* The lists are merged, the paper is identified and the final object is
\* built (script.py 2152-2226).
MergeLists ==
    /\ fn = "run_pipeline_for_pdf (merge)"
    /\ ret = <<>>
    /\ \E working \in {MergeWorking(args.all_patches, args.all_verifier_passes,
                                    args.paper_id_hint, args.found_pmid)} :
         ret' = <<build_final_object(working, args.all_verifier_passes, <<>>)>>
    /\ UNCHANGED <<fn, args, pipelineVars, mergeVars, abbaVars>>

NextPaperId == MergeLists

SpecPaperId == InitPaperId /\ [][NextPaperId]_vars

\* ------------------------------------------------------------------------
\* Properties of the pipeline
\* ------------------------------------------------------------------------
Built == final_obj # NoFinal
Report == final_obj.verification.critical_decisions
Issues == final_obj.validation.issues
Passes == final_obj.verification.passes
FinalSheets == final_obj.record.kv["sheets"]

\* The object build_final_object merged, read back from the final object.
FinalMerged ==
    M([paper_id |-> final_obj.paper_id, study_type |-> final_obj.study_type,
       record |-> final_obj.record])

EntriesAt(path) == {j \in DOMAIN Report : Report[j].path = path}
CriticalAt(path) ==
    {i \in DOMAIN Issues : Issues[i].severity = "CRITICAL" /\ Issues[i].path = path}
Reviewed(path) ==
    \E p \in DOMAIN Passes : \E r \in DOMAIN Passes[p].decision_reviews :
        Passes[p].decision_reviews[r].path = path

\* C1: in the final object needs_human_review is true iff the combined issue
\* list, the issues of compile_critical_decision_report followed by those of
\* rule_validation, holds at least one issue of severity CRITICAL.
C1_NeedsReviewIffCritical ==
    Built =>
        /\ Issues = compile_critical_decision_report(Passes, decisions_non_null,
                                                     FinalMerged).issues
                    \o rule_validation(FinalMerged)
        /\ final_obj.validation.needs_human_review
             <=> (\E i \in DOMAIN Issues : Issues[i].severity = "CRITICAL")

\* C1 witness: a final object whose only issues are rule warnings and that
\* does not ask for human review.
C1_Witness ==
    /\ Built
    /\ Issues # <<>>
    /\ \A i \in DOMAIN Issues : Issues[i].severity = "WARN"
    /\ ~final_obj.validation.needs_human_review

Statuses == {"AGREE", "DISAGREE", "UNSURE", "MISSING"}

LastDecisionPaths ==
    LET flat == FlattenDecisions(all_task_results)
    IN  {p \in Paths :
            /\ ENABLE_PUBMED_LOOKUP => p \notin PmidPaths
            /\ \E i \in DOMAIN flat :
                 /\ flat[i].path = p
                 /\ ~IsNone(flat[i].value)
                 /\ \A j \in DOMAIN flat : j > i => flat[j].path # p}

C3_MissingIffNoReview ==
    Built =>
        \A j \in DOMAIN Report :
            (Report[j].status = "MISSING") <=> ~Reviewed(Report[j].path)

\* C3 witness: a report with a MISSING entry and a reviewed entry, built from
\* at least two verifier passes.
C3_Witness ==
    /\ Built
    /\ Len(Passes) >= 2
    /\ \E j \in DOMAIN Report : Report[j].status = "MISSING"
    /\ \E j \in DOMAIN Report : Report[j].status # "MISSING" /\ Reviewed(Report[j].path)

\* C4: every entry with status MISSING, DISAGREE or UNSURE has exactly one
\* CRITICAL issue carrying its path, and an AGREE entry has none.
C4_OneCriticalPerContestedEntry ==
    Built =>
        \A j \in DOMAIN Report :
            Cardinality(CriticalAt(Report[j].path))
                = IF Report[j].status \in {"MISSING", "DISAGREE", "UNSURE"} THEN 1 ELSE 0

\* C4 witness: a report with an UNSURE, a DISAGREE and an AGREE entry.
C4_Witness ==
    /\ Built
    /\ \E j \in DOMAIN Report : Report[j].status = "UNSURE"
    /\ \E j \in DOMAIN Report : Report[j].status = "DISAGREE"
    /\ \E j \in DOMAIN Report : Report[j].status = "AGREE"

\* The pdf run_pipeline_for_pdf is working on.
CurrentPdf == pdf_paths[idx]
Persisted(pdf) ==
    \/ pdf \in Range(xlsx_writes)
    \/ pdf \in Range(docx_writes)
    \/ pdf \in Range(audit_writes)

\* C5: no workbook, report or audit output is produced for a document that
\* has zero verifier passes.
C5_NoOutputWithoutVerifierPass ==
    (pc \in {"write_docx", "write_audit", "return"} /\ Persisted(CurrentPdf))
        => all_verifier_passes # <<>>

\* C6: once an extractor or verifier call of a document has failed for good,
\* the document is never merged and nothing of it is persisted: no workbook,
\* no review-log section, no audit JSON, no processed-state entry.
C6_FailedCallPersistsNothing ==
    /\ (pc # "idle" /\ \E t \in Tasks : thr[t].st = "failed")
          => /\ pc \in {"pool", "unwind"}
             /\ ~Persisted(CurrentPdf)
             /\ CurrentPdf \notin Range(finals)
    /\ run = "RuntimeError"
          => /\ ~Persisted(CurrentPdf)
             /\ CurrentPdf \notin Range(processed_entries)
             /\ CurrentPdf \notin Range(finals)

\* C6 witness: the second document fails on a call while another of its
\* tasks was extracted and verified, after the first document was written.
C6_Witness ==
    /\ run = "RuntimeError"
    /\ idx = 2
    /\ xlsx_writes = <<pdf_paths[1]>>
    /\ \E t \in Tasks : thr[t].st = "failed"
    /\ \E t \in Tasks : thr[t].st = "done" /\ thr[t].passes # <<>>

\* The appraisal group of a study type.
GroupOf(study_type) ==
    CASE study_type = "rct" -> {"rct_appraisal"}
      [] study_type = "cohort" -> {"cohort_appraisal"}
      [] study_type = "case_series" -> {"case_series_appraisal"}
      [] study_type = "case_control" -> {"case_control_appraisal"}
      [] study_type = "systematic_review" -> {"systematic_appraisal"}
      [] OTHER -> {}

\* C8: in every final record the non-null appraisal groups are exactly the
\* group of the final study_type, and none when it is other or unclear.
C8_OneAppraisalGroupPerStudyType ==
    Built =>
        {g \in AppraisalSheets : ~IsNone(Get(FinalSheets, g))}
            = GroupOf(IF IsNone(final_obj.study_type) THEN "unclear"
                      ELSE final_obj.study_type.v)

\* C9: a failure on one document does not end the run while documents of
\* pdf_paths are still to be processed.
C9_FailureStopsOnlyThatDocument ==
    run = "RuntimeError" => idx = NumDocs

\* C10: deep_merge is pure.  After the call, and after any later write of
\* the caller into the result, both arguments stand for the values they had
\* when deep_merge was called; the result shares no object with them; and
\* what it returned is the merge of those values.
C10_DeepMergeIsPure ==
    mphase = "merged" =>
        /\ Deref(heap, arg_a) = snapshot.a
        /\ Deref(heap, arg_b) = snapshot.b
        /\ Reach(heap, out) \cap (Reach(heap, arg_a) \cup Reach(heap, arg_b)) = {}
        /\ mutations = 0 => Deref(heap, out) = deep_merge(snapshot.a, snapshot.b)

\* C10 witness: two dicts with a dict under a common key were merged and the
\* caller then changed the result.
C10_Witness ==
    /\ mphase = "merged"
    /\ mutations > 0
    /\ IsRef(arg_a) /\ IsRef(arg_b) /\ arg_a # arg_b
    /\ \E k \in DOMAIN heap[arg_a.a] \cap DOMAIN heap[arg_b.a] :
         IsRef(heap[arg_a.a][k]) /\ IsRef(heap[arg_b.a][k])
    /\ Deref(heap, out) # deep_merge(snapshot.a, snapshot.b)

\* Two values differ beyond tolerance: one is null and the other is not,
\* two strings differ after the trim, or two numbers differ by more than
\* a hundredth and by more than a hundredth of either of them.
DifferBeyondTolerance(a, b) ==
    \/ IsNone(a) # IsNone(b)
    \/ IsStr(a) /\ IsStr(b) /\ strip(a.v) # strip(b.v)
    \/ /\ IsNum(a) /\ IsNum(b)
       /\ 100 * Abs(a.v - b.v) > 1
       /\ 100 * Abs(a.v - b.v) > Max(Abs(a.v), Abs(b.v))

DifferAt(path) ==
    DifferBeyondTolerance(json_pointer_get(report_a, path),
                          json_pointer_get(report_b, path))

AbbaPathSet == Range(ComparedPaths(report_a, report_b))

\* C7: once the reports are compared, a path at which they differ beyond
\* tolerance is never written without a pick of the adjudicator: with
\* adjudication disabled, or with an UNSURE answer at such a path, the
\* output is refused; and output that is written carries, at every such
\* path, the value of the side the adjudicator picked.
C7_AbbaFailsClosed ==
    /\ abba_pc \in {"write", "written", "refused"} =>
         \A p \in AbbaPathSet :
             (DifferAt(p) /\ (~adjudication_enabled
                              \/ (p \in DOMAIN picks /\ picks[p] = "UNSURE")))
                 => abba_pc = "refused"
    /\ abba_pc \in {"write", "written"} =>
         \A p \in AbbaPathSet :
             DifferAt(p) =>
                /\ p \in DOMAIN picks
                /\ picks[p] \in {"PICK_A", "PICK_B"}
                /\ json_pointer_get(abba_working, p)
                     = json_pointer_get(IF picks[p] = "PICK_A" THEN report_a ELSE report_b, p)

\* C7 witness: the reports differ beyond tolerance at a path, adjudication
\* is disabled and the output has been refused.
C7_Witness ==
    /\ abba_pc = "refused"
    /\ ~adjudication_enabled
    /\ \E p \in AbbaPathSet : DifferAt(p)
    /\ abba_working = report_a

\* C7 witness of the adjudicated case: an UNSURE answer after a pick.
C7_WitnessUnsure ==
    /\ abba_pc = "refused"
    /\ adjudication_enabled
    /\ \E p \in DOMAIN picks : picks[p] = "UNSURE"
    /\ \E p \in DOMAIN picks : picks[p] = "PICK_B"

\* ------------------------------------------------------------------------
\* Properties of deep_merge by value
\* ------------------------------------------------------------------------
Merged == fn = "deep_merge" /\ ret # <<>>

\* C11 as written: merging the empty patch into any base value, a map or
\* not, returns the base value.
C11_EmptyPatchIsIdentity ==
    Merged /\ args[2] = EmptyMap => ret[1] = args[1]

\* C11 amended: merging the empty patch into a base that is a map returns
\* the base; into a base that is not a map it returns the empty map.
C11_EmptyPatchIsIdentityOnMaps ==
    Merged /\ args[2] = EmptyMap =>
        ret[1] = IF IsDict(args[1]) THEN args[1] ELSE EmptyMap

C11_Witness ==
    /\ Merged /\ args[2] = EmptyMap
    /\ args[1] = M(("a" :> M("x" :> N(1))) @@ ("b" :> N(2)))
    /\ ret[1] = args[1]

C11_WitnessNonMap ==
    Merged /\ args[2] = EmptyMap /\ args[1] = L(<<N(1)>>) /\ ret[1] = EmptyMap

\* C12: applying the same patch again to the result of deep_merge(base,
\* patch) returns that result again, for every base and patch.
C12_SamePatchTwiceIsIdempotent ==
    fn = "deep_merge" => \A i \in 2..Len(ret) : ret[i] = ret[1]

\* The patch was applied twice to a base it changes below a shared key.
C12_Witness ==
    /\ fn = "deep_merge" /\ Len(ret) >= 2
    /\ args[1] = M(("a" :> M("x" :> N(1))) @@ ("b" :> N(2)))
    /\ args[2] = M("a" :> M("y" :> N(2)))
    /\ ret[2] = M(("a" :> M(("x" :> N(1)) @@ ("y" :> N(2)))) @@ ("b" :> N(2)))

\* r is related to the maps a and b as C13 says: the keys of r are those of
\* a and b; a key of a alone holds a's value; a key of both with two maps
\* holds a value related in the same way to the two maps; every other key
\* of b holds b's value.
RECURSIVE MergedAs(_, _, _)
MergedAs(r, a, b) ==
    /\ IsDict(r)
    /\ DOMAIN r.kv = DOMAIN a.kv \cup DOMAIN b.kv
    /\ \A k \in DOMAIN r.kv :
         IF k \notin DOMAIN b.kv THEN r.kv[k] = a.kv[k]
         ELSE IF k \in DOMAIN a.kv /\ IsDict(a.kv[k]) /\ IsDict(b.kv[k])
              THEN MergedAs(r.kv[k], a.kv[k], b.kv[k])
              ELSE r.kv[k] = b.kv[k]

\* C13: the merge of two maps has the keys of both; a key of the base alone
\* keeps its value, a key of both with two maps holds their recursive merge,
\* every other key of the patch holds the patch's value (a list or a null
\* of the patch replaces the base's value, lists are not merged by element).
C13_MergeOfMapsByKey ==
    Merged /\ IsDict(args[1]) /\ IsDict(args[2]) => MergedAs(ret[1], args[1], args[2])

\* A list of the patch has replaced a list of the base under the same key.
C13_Witness ==
    /\ Merged
    /\ args[1] = M("a" :> L(<<N(1)>>))
    /\ args[2] = M("a" :> L(<<N(2), N(3)>>))
    /\ ret[1] = M("a" :> L(<<N(2), N(3)>>))

\* Two maps under the same key were merged key by key, two levels down.
C13_WitnessRecursive ==
    /\ Merged
    /\ args[1] = M("a" :> M("x" :> M("z" :> N(1))))
    /\ args[2] = M("a" :> M("x" :> M("w" :> Null)))
    /\ ret[1] = M("a" :> M("x" :> M(("z" :> N(1)) @@ ("w" :> Null))))

\* ------------------------------------------------------------------------
\* Properties of dedupe_decisions
\* ------------------------------------------------------------------------
Deduped == fn = "dedupe_decisions" /\ ret # <<>>

\* The decisions of the task results, in the order they were produced.
Produced == args[1].decisions \o args[2].decisions

\* The position of the last decision produced for a path.
LastAt(path) ==
    CHOOSE i \in DOMAIN Produced :
        /\ Produced[i].path = path
        /\ \A j \in DOMAIN Produced : Produced[j].path = path => j <= i

\* C14: the result holds one decision for each distinct non-empty path of
\* the task results and no other; it is the last decision produced for the
\* path; the decisions are ordered by the position of the path's last
\* occurrence.  Decisions without a path are the only ones dropped.
C14_DedupeKeepsLastInLastOrder ==
    Deduped =>
        /\ {ret[1][i].path : i \in DOMAIN ret[1]}
              = {Produced[j].path : j \in DOMAIN Produced} \ {""}
        /\ \A i, j \in DOMAIN ret[1] : i # j => ret[1][i].path # ret[1][j].path
        /\ \A i \in DOMAIN ret[1] : ret[1][i] = Produced[LastAt(ret[1][i].path)]
        /\ \A i, j \in DOMAIN ret[1] :
              i < j => LastAt(ret[1][i].path) < LastAt(ret[1][j].path)

\* Paths [A, B, A] with values [1, 2, 3] across two task results gave the
\* order [B, A] with A's value 3.
C14_Witness ==
    /\ Deduped
    /\ Produced = <<Decision("/a", N(1), "", Null), Decision("/b", N(2), "", Null),
                    Decision("/a", N(3), "", Null)>>
    /\ Len(args[1].decisions) = 2
    /\ ret[1] = <<Decision("/b", N(2), "", Null), Decision("/a", N(3), "", Null)>>

\* A decision without a path was dropped.
C14_WitnessPathless ==
    /\ Deduped
    /\ Produced = <<Decision("", N(1), "", Null), Decision("/b", N(2), "", Null)>>
    /\ ret[1] = <<Decision("/b", N(2), "", Null)>>

\* ------------------------------------------------------------------------
\* Properties of json_pointer_get and json_pointer_set
\* ------------------------------------------------------------------------
IsPrefixOf(x, y) == Len(x) <= Len(y) /\ SubSeq(y, 1, Len(x)) = x

IsRootText(chars) == chars \in {<<>>, <<"/">>}

\* A write that did not raise, and the read that followed it.
SetDone == fn = "json_pointer" /\ Len(ret) = 1 /\ ret[1].op = "set" /\ ~ret[1].raised
ReadBack ==
    fn = "json_pointer" /\ Len(ret) = 2 /\ ret[1].op = "set" /\ ~ret[1].raised
\* A read of the object as it was given.
ReadOnly == fn = "json_pointer" /\ ret # <<>> /\ ret[1].op = "get"
SetCalled == fn = "json_pointer" /\ ret # <<>> /\ ret[1].op = "set"

\* The other paths read before and after a write.
ProbeTexts ==
    { <<"a">>, <<"/", "a">>, <<"/", "/", "a">>, <<"/", "0">>, <<"/", "1">>,
      <<"/", "0", "1">>, <<"/", "0", "0">>, <<"/", "/">>, <<"/", "~", "0">>,
      <<"/", "~", "1">>, <<"/", "~", "0", "1">>, <<"/", "a", "/", "0">>,
      <<"/", "a", "/", "1">>, <<"/", "a", "/", "a">>, <<"/", "0", "/", "a">>,
      <<"/", "1", "/", "a">>, <<"/", SUPERSCRIPT_TWO>>, <<"/", "a", "/", "0", "1">> }

Unchanged(probe) ==
    json_pointer_get_text(ret[1].obj, probe) = json_pointer_get_text(args.obj, probe)

\* C15 as written: after a write that succeeds, the read at the same
\* pointer returns the value written, and the read at every other pointer
\* whose text is not a prefix or an extension of the pointer's text returns
\* what it returned before.
C15_SetThenGetRoundTrip ==
    /\ ReadBack => ret[2].result = args.value
    /\ SetDone =>
         \A probe \in ProbeTexts :
            ~IsPrefixOf(probe, args.pointer) /\ ~IsPrefixOf(args.pointer, probe)
                => Unchanged(probe)

\* The location a pointer addresses in an object: the keys and the list
\* positions it passes, a list index taken by its integer value; the
\* tokens that address nothing present are kept as keys.
RECURSIVE Location(_, _)
Location(cur, parts) ==
    IF parts = <<>> THEN <<>>
    ELSE IF IsList(cur) /\ IntAccepts(Head(parts)) /\ int(Head(parts)) < Len(cur.items)
         THEN <<[idx |-> int(Head(parts))]>>
                 \o Location(cur.items[int(Head(parts)) + 1], Tail(parts))
    ELSE IF IsDict(cur) /\ Head(parts) \in DOMAIN cur.kv
         THEN <<[key |-> Head(parts)]>> \o Location(cur.kv[Head(parts)], Tail(parts))
         ELSE [i \in DOMAIN parts |-> [key |-> parts[i]]]

LocationOf(obj, chars) ==
    IF IsRootText(chars) THEN <<>> ELSE Location(obj, pointer_parts(chars))

\* C15 amended: after a write that succeeds, the read at the same pointer
\* returns the value written, and the read at every pointer that addresses
\* neither the written location, nor a container on the way to it, nor a
\* location below it, returns what it returned before.
C15_SetThenGetRoundTripByLocation ==
    /\ ReadBack => ret[2].result = args.value
    /\ SetDone =>
         LET written == LocationOf(args.obj, args.pointer)
         IN  \A probe \in ProbeTexts :
                /\ ~IsPrefixOf(LocationOf(args.obj, probe), written)
                /\ ~IsPrefixOf(written, LocationOf(args.obj, probe))
                => Unchanged(probe)

\* The second item of a list in a dict was written and read back; the
\* first item is as before.
C15_Witness ==
    /\ ReadBack
    /\ args.obj = M("a" :> L(<<N(1), N(2)>>))
    /\ args.pointer = <<"/", "a", "/", "1">>
    /\ ret[2].result = S("v")
    /\ ret[1].obj = M("a" :> L(<<N(1), S("v")>>))

\* What C16 calls a pointer that does not lead to a value: a segment names
\* a missing key of a map, is not a numeral or is out of bounds in a
\* sequence, or is applied to a value that is no container.
RECURSIVE LeadsToValue(_, _)
LeadsToValue(cur, parts) ==
    IF parts = <<>> THEN TRUE
    ELSE IF IsList(cur)
         THEN /\ IntAccepts(Head(parts))
              /\ int(Head(parts)) < Len(cur.items)
              /\ LeadsToValue(cur.items[int(Head(parts)) + 1], Tail(parts))
    ELSE IF IsDict(cur)
         THEN /\ Head(parts) \in DOMAIN cur.kv
              /\ LeadsToValue(cur.kv[Head(parts)], Tail(parts))
         ELSE FALSE

\* C16: json_pointer_get never raises; the empty or root pointer returns
\* the root; a pointer with a segment that names a missing key, is a
\* non-numeric or out-of-bounds index into a sequence, or is applied to a
\* non-container, returns null.
C16_GetIsLenient ==
    ReadOnly =>
        /\ ~ret[1].raised
        /\ IsRootText(args.pointer) => ret[1].result = args.obj
        /\ ~IsRootText(args.pointer) /\ ~LeadsToValue(args.obj, pointer_parts(args.pointer))
              => ret[1].result = Null

\* What C17 says makes a write raise, walking the segments: an index into
\* a sequence that is not a numeral or out of range, or a value on the way
\* that is no container.  under_key tells whether a scalar or null held
\* under a map key on the way counts.
RECURSIVE MustRaise(_, _, _)
MustRaise(cur, parts, under_key) ==
    IF IsList(cur)
    THEN \/ ~IntAccepts(Head(parts))
         \/ int(Head(parts)) >= Len(cur.items)
         \/ /\ Len(parts) > 1
            /\ MustRaise(cur.items[int(Head(parts)) + 1], Tail(parts), under_key)
    ELSE IF IsDict(cur)
    THEN /\ Len(parts) > 1
         /\ Head(parts) \in DOMAIN cur.kv
         /\ IF IsDict(cur.kv[Head(parts)]) \/ IsList(cur.kv[Head(parts)])
            THEN MustRaise(cur.kv[Head(parts)], Tail(parts), under_key)
            ELSE under_key
    ELSE TRUE

\* C17 as written: json_pointer_set raises whenever the pointer is empty or
\* root, a segment applied to a sequence is non-numeric or out of range, or
\* a non-container is met on the way to the target.
C17_SetIsStrict ==
    SetCalled =>
        (IsRootText(args.pointer) \/ MustRaise(args.obj, pointer_parts(args.pointer), TRUE)
            => ret[1].raised)

\* C17 amended: json_pointer_set raises exactly when the pointer is empty
\* or root, a segment applied to a sequence is non-numeric or out of range,
\* or a segment is applied to a non-container that is the root or an item
\* of a sequence; a scalar or null under a map key on the way is replaced
\* by an empty map and the write succeeds.
C17_SetIsStrictExceptUnderKeys ==
    SetCalled =>
        (ret[1].raised <=>
            IsRootText(args.pointer)
               \/ MustRaise(args.obj, pointer_parts(args.pointer), FALSE))

\* A write into an item of a list that is a number raised.
C17_Witness ==
    /\ SetCalled
    /\ args.obj = L(<<M("a" :> N(1)), N(2)>>)
    /\ args.pointer = <<"/", "1", "/", "a">>
    /\ ret[1].raised

\* A write through a number under a map key replaced it by a map.
C17_WitnessVivified ==
    /\ SetCalled
    /\ args.obj = M("a" :> N(5))
    /\ args.pointer = <<"/", "a", "/", "a">>
    /\ ~ret[1].raised
    /\ ret[1].obj = M("a" :> M("a" :> S("v")))

\* A write that raised.
SetRaised == SetCalled /\ ret[1].raised

\* C30: whenever json_pointer_set raises, the target object is exactly as
\* it was before the call: no map on the way has been created or replaced
\* and no value has been written.
C30_RaiseLeavesTargetUntouched == SetRaised => ret[1].obj = args.obj

\* A write through a dict into a list, under a token that is no numeral,
\* raised and the dict and its list are as they were.
C30_Witness ==
    /\ SetRaised
    /\ args.obj = M("a" :> L(<<N(1), N(2)>>))
    /\ args.pointer = <<"/", "a", "/", "a">>
    /\ ret[1].obj = M("a" :> L(<<N(1), N(2)>>))

\* ------------------------------------------------------------------------
\* Properties of values_match
\* ------------------------------------------------------------------------
Matched == fn = "values_match" /\ ret # <<>>

BothStrings == IsStr(args.a) /\ IsStr(args.b)
BothNumbers == ~IsNone(coerce_float(args.a)) /\ ~IsNone(coerce_float(args.b))
\* |a - b| and |b| of the coerced operands
Difference == Abs(coerce_float(args.a).v - coerce_float(args.b).v)
RightMagnitude == Abs(coerce_float(args.b).v)

\* C18: values_match is true exactly when both operands are null; or both
\* are strings equal after trimming; or, the operands not being two
\* strings, both coerce to numbers with |a-b| <= abs_tol or (|b| > 0 and
\* |a-b|/|b| <= rel_tol), or a equals b.  The relative difference is taken
\* against b: with tolerances 0.01/0.01, 99 matches 100 and 100 does not
\* match 99.
C18_ValuesMatchExactly ==
    Matched =>
        /\ ret[1] <=>
              \/ IsNone(args.a) /\ IsNone(args.b)
              \/ BothStrings /\ strip(args.a.v) = strip(args.b.v)
              \/ /\ ~BothStrings
                 /\ \/ /\ BothNumbers
                       /\ \/ TolScale * Difference <= args.abs_tol
                          \/ /\ RightMagnitude > 0
                             /\ TolScale * Difference <= args.rel_tol * RightMagnitude
                    \/ args.a = args.b
        /\ args.abs_tol = 1 /\ args.rel_tol = 1 /\ args.a = N(99) /\ args.b = N(100)
              => ret[1]
        /\ args.abs_tol = 1 /\ args.rel_tol = 1 /\ args.a = N(100) /\ args.b = N(99)
              => ~ret[1]

\* With tolerances 0.01/0.01, 100 did not match 99.
C18_Witness ==
    /\ Matched
    /\ args = [a |-> N(100), b |-> N(99), abs_tol |-> 1, rel_tol |-> 1]
    /\ ~ret[1]

\* With the same tolerances, 99 matched 100.
C18_WitnessRight ==
    /\ Matched
    /\ args = [a |-> N(99), b |-> N(100), abs_tol |-> 1, rel_tol |-> 1]
    /\ ret[1]

\* ------------------------------------------------------------------------
\* Properties of normalize_pmid
\* ------------------------------------------------------------------------
Normalized == fn = "normalize_pmid" /\ ret # <<>>

\* The numerals of 0 and 1 that C19 calls an all-digit string.
IsNumeral(chars) == chars # <<>> /\ \A i \in DOMAIN chars : chars[i] \in {"0", "1"}

\* The numerals a text holds between blanks, as they are or followed by
\* ".0".
NumeralsIn(chars) ==
    {SubSeq(chars, i, j) : i \in 1..Len(chars), j \in 1..Len(chars)}
        \cap {num \in CharSeqs({"0", "1"}, 1, Len(chars)) :
                \E lead \in 0..Len(chars), trail \in 0..Len(chars) :
                    \/ chars = [k \in 1..lead |-> " "] \o num \o [k \in 1..trail |-> " "]
                    \/ chars = [k \in 1..lead |-> " "] \o num \o <<".", "0">>
                                   \o [k \in 1..trail |-> " "]}

\* The PMIDs a value is a numeric variant of: the integer n, the float
\* n.0, the numeral of n with blanks around it, that numeral followed by
\* ".0".
VariantOf(value) ==
    IF IsNum(value) THEN {value.v}
    ELSE IF value.t = "float" THEN (IF value.tenths = 0 THEN {value.v} ELSE {})
    ELSE IF IsText(value) THEN {DecimalValue(num) : num \in NumeralsIn(value.chars)}
    ELSE {}

IsBlank(value) == IsText(value) /\ \A i \in DOMAIN value.chars : value.chars[i] = " "

\* C19: every numeric variant of a PMID n (the integer, the integral
\* float, the digit string with blanks around it, the digit string ending
\* in ".0") is mapped to the decimal string of n; booleans, null and empty
\* or blank strings are mapped to null.
C19_NumericVariantsNormalizeAlike ==
    Normalized =>
        /\ \A n \in VariantOf(args.value) : ret[1] = S(DecimalString(n))
        /\ IsNone(args.value) \/ args.value.t = "bool" \/ IsBlank(args.value)
              => ret[1] = Null

\* The text " 10.0" became "10".
C19_Witness ==
    /\ Normalized
    /\ args.value = Text(<<" ", "1", "0", ".", "0">>)
    /\ ret[1] = S("10")

\* The float 12345678.0 became "12345678".
C19_WitnessFloat ==
    /\ Normalized
    /\ args.value = F(12345678, 0)
    /\ ret[1] = S("12345678")

\* ------------------------------------------------------------------------
\* Properties of the scores of the final object
\* ------------------------------------------------------------------------
FinalRct == Get(FinalSheets, "rct_appraisal")
Scored == Built /\ IsDict(FinalRct)

\* The answer 1 to a question, and the signed answers +1 and -1.
AnsweredOne(k) == Get(FinalRct, k) \in {S("1"), N(1)}
SignedAnswer(k) ==
    IF Get(FinalRct, k) = S("+1") THEN 1
    ELSE IF Get(FinalRct, k) \in {S("-1"), N(-1)} THEN -1 ELSE 0

\* S of C20: the questions answered 1 plus the signed contributions.
RctSum ==
    Cardinality({k \in {"q1_randomized", "q3_double_blind", "q5_withdrawals_dropouts"} :
                    AnsweredOne(k)})
        + SignedAnswer("q2_randomization_method") + SignedAnswer("q4_blinding_method")

\* C20: in the final object rct_appraisal.total_score is max(0, S), S the
\* number of q1, q3, q5 answered 1 plus the signed contributions of q2 and
\* q4; it lies in 0..5, whatever total_score a patch supplied; with only
\* q1_randomized = 1 answered it is 1.
C20_RctTotalIsFlooredSum ==
    Scored =>
        /\ Get(FinalRct, "total_score") = N(IF RctSum < 0 THEN 0 ELSE RctSum)
        /\ Get(FinalRct, "total_score").v \in 0..5
        /\ (AnsweredOne("q1_randomized")
              /\ \A k \in DOMAIN FinalRct.kv \ {"q1_randomized", "total_score"} :
                    IsNone(FinalRct.kv[k]))
              => Get(FinalRct, "total_score") = N(1)

\* A verifier patch supplied total_score 4 with answers that sum to -1; the
\* final total is 0.
C20_Witness ==
    /\ Scored
    /\ \E i \in DOMAIN Passes :
         Passes[i].suggested_patch =
            AppraisalPatch("rct_appraisal",
                [q1_randomized |-> S("0"), q2_randomization_method |-> S("-1"),
                 total_score |-> N(4)])
    /\ RctSum = -1
    /\ Get(FinalRct, "total_score") = N(0)

\* Only q1_randomized is answered, with 1: the final total is 1.
C20_WitnessOneAnswer ==
    /\ Scored
    /\ Get(FinalRct, "q1_randomized") = S("1")
    /\ IsNone(Get(FinalRct, "q2_randomization_method"))
    /\ Get(FinalRct, "total_score") = N(1)

\* The extractor supplied total_score 5 with answers that sum to 1.
C20_WitnessExtractor ==
    /\ Scored
    /\ Get(FinalRct, "q4_blinding_method") = S("+1")
    /\ Get(FinalRct, "q2_randomization_method") = S("-1")
    /\ Get(FinalRct, "total_score") = N(1)


\* ------------------------------------------------------------------------
\* Properties of the scores counted by "Yes"
\* ------------------------------------------------------------------------
ScoresComputed == fn = "compute_scores_inplace" /\ ret # <<>>
ScoredSheet == Get(SheetsOf(ret[1]), args.group)
GivenSheet == Get(SheetsOf(args.final_obj), args.group)

\* The q* questions of the sheet handed in.
Questions == {k \in DOMAIN GivenSheet.kv : k \in Range(GroupQuestions(args.group))}

\* The spellings of yes C21 names.
Affirmative(v) == v \in {S("Yes"), S("yes"), S("y"), S("true")}

\* The answer is the string Yes, blanks around it aside.
IsYesString(v) == v \in {S("Yes"), S(" Yes ")}

\* C21 as stated: total_score of the case-series and systematic-review
\* groups is the number of q* questions answered with any spelling of yes
\* ("Yes", "yes", "y", "true").
C21_TotalCountsSpellingsOfYes ==
    (ScoresComputed /\ IsDict(GivenSheet)) =>
        Get(ScoredSheet, "total_score")
            = N(Cardinality({k \in Questions : Affirmative(GivenSheet.kv[k])}))

\* C21, amended: total_score of the case-series and systematic-review
\* groups is the number of q* questions whose answer is the string "Yes",
\* blanks around it aside; no other spelling counts, nor a value that is
\* not a string, nor a key that is not a question, and a supplied
\* total_score is overwritten.
C21_TotalCountsYes ==
    (ScoresComputed /\ IsDict(GivenSheet)) =>
        /\ Get(ScoredSheet, "total_score")
             = N(Cardinality({k \in Questions : IsYesString(GivenSheet.kv[k])}))
        /\ \A k \in DOMAIN GivenSheet.kv \ {"total_score"} :
               ScoredSheet.kv[k] = GivenSheet.kv[k]

\* One question is answered "yes" and the other " Yes ": the total is 1.
C21_Witness ==
    /\ ScoresComputed
    /\ IsDict(GivenSheet)
    /\ GivenSheet.kv[GroupQuestions(args.group)[1]] = S("yes")
    /\ GivenSheet.kv[GroupQuestions(args.group)[2]] = S(" Yes ")
    /\ GivenSheet.kv["author"] = S("Yes")
    /\ Get(ScoredSheet, "total_score") = N(1)


\* ------------------------------------------------------------------------
\* Properties of rule_validation in the final object
\* ------------------------------------------------------------------------
RuleCodes == {"MRONJ_DEV_UNEXPECTED", "ROUTE_NR_CONFLICT"}
RuleIssues == {i \in DOMAIN Issues : Issues[i].code \in RuleCodes}

FinalIncluded == Get(FinalSheets, "included_articles")

\* The rule violations of the final record, read off its fields.
MdevUnexpected == Get(FinalIncluded, "mronj_development") \notin {Null, S("Yes"), S("No")}
RouteConflict ==
    /\ Get(FinalIncluded, "route_not_reported") = N(1)
    /\ Get(FinalIncluded, "route_iv") = N(1)

\* Every decision of the document is reviewed, and every review of every
\* pass says AGREE.
AllAgree ==
    /\ \A i \in DOMAIN decisions_non_null : Reviewed(decisions_non_null[i].path)
    /\ \A p \in DOMAIN Passes : \A r \in DOMAIN Passes[p].decision_reviews :
           Passes[p].decision_reviews[r].status = "AGREE"

\* C22: every issue of rule_validation has severity WARN, each violation of
\* the final record raises its issue, and a document whose decisions all
\* have AGREE reviews has needs_human_review false whatever rule violations
\* its record contains.
C22_RuleViolationsNeverForceReview ==
    Built =>
        /\ \A i \in RuleIssues : Issues[i].severity = "WARN"
        /\ MdevUnexpected <=> \E i \in RuleIssues : Issues[i].code = "MRONJ_DEV_UNEXPECTED"
        /\ RouteConflict <=> \E i \in RuleIssues : Issues[i].code = "ROUTE_NR_CONFLICT"
        /\ AllAgree => ~final_obj.validation.needs_human_review

\* All decisions are agreed, the record violates both rules, and the final
\* object does not ask for human review.
C22_Witness ==
    /\ Built
    /\ decisions_non_null # <<>>
    /\ AllAgree
    /\ MdevUnexpected
    /\ RouteConflict
    /\ Cardinality(RuleIssues) = 2
    /\ ~final_obj.validation.needs_human_review


\* ------------------------------------------------------------------------
\* Properties of verify_decisions
\* ------------------------------------------------------------------------
Verifying == fn = "verify_decisions"

\* A decision as the verifier is given it: a missing page hint is read
\* from the "PAGE n" of its evidence.
WithHint(d) ==
    IF IsNone(d.page) /\ d.evidence = EV_PAGE1 THEN [d EXCEPT !.page = N(1)] ELSE d

\* The non-null decisions of the task result and the k-th chunk of them, by
\* position.
VerifiedDecisions ==
    [i \in DOMAIN SelectSeq(args.task_result.decisions, HasValue) |->
        WithHint(SelectSeq(args.task_result.decisions, HasValue)[i])]
ChunkAt(k) ==
    SubSeq(VerifiedDecisions, (k - 1) * args.chunk_size + 1,
           Min(k * args.chunk_size, Len(VerifiedDecisions)))

\* The passes returned by the calls before call k.
PassesBefore(k) == [i \in 1..(k - 1) |-> ret[i].vpass]

\* The working record with the suggested patches of the chunks before k
\* merged into it.
FoldedBefore(k) == ApplySuggestedPatches(args.working_snapshot, PassesBefore(k))

Compiled == fn = "compile_critical_decision_report" /\ ret # <<>>
CompiledReport == ret[1].critical_report
GivenPasses == args.verifier_passes

\* The places of the reviews of a path in a pass, and the passes that
\* review it.
ReviewsOf(path, i) ==
    {r \in DOMAIN GivenPasses[i].decision_reviews :
        GivenPasses[i].decision_reviews[r].path = path}
PassesWith(path) == {i \in DOMAIN GivenPasses : ReviewsOf(path, i) # {}}

MaxOf(set) == CHOOSE x \in set : \A y \in set : y <= x

\* The latest review of a path: the last one in the last pass that has one.
LatestReview(path) ==
    GivenPasses[MaxOf(PassesWith(path))]
        .decision_reviews[MaxOf(ReviewsOf(path, MaxOf(PassesWith(path))))]

\* C24: the report entry of a path with several reviews is built from the
\* latest one, the last review of the path in the last pass of the ordered
\* pass list that contains the path: it carries that review's status,
\* explanation and evidence, and its final value is one of that review's
\* values.
C24_LatestReviewWins ==
    Compiled =>
        \A j \in DOMAIN CompiledReport :
            PassesWith(CompiledReport[j].path) # {} =>
                LET latest == LatestReview(CompiledReport[j].path)
                IN  /\ CompiledReport[j].status = latest.status
                    /\ CompiledReport[j].explanation = latest.explanation
                    /\ CompiledReport[j].evidence = latest.evidence
                    /\ CompiledReport[j].final_value
                         \in {latest.proposed_value, latest.driver_value}

\* The path is reviewed in both passes, twice in the second one; the entry
\* is built from the second review of the second pass, which differs from
\* the others.
C24_Witness ==
    /\ Compiled
    /\ Len(GivenPasses) = 2
    /\ Cardinality(ReviewsOf(P_STUDY_TYPE, 1)) >= 1
    /\ Cardinality(ReviewsOf(P_STUDY_TYPE, 2)) = 2
    /\ GivenPasses[1].decision_reviews[1].status = "AGREE"
    /\ GivenPasses[2].decision_reviews[1].status = "UNSURE"
    /\ GivenPasses[2].decision_reviews[2].status = "DISAGREE"
    /\ \E j \in DOMAIN CompiledReport :
          /\ CompiledReport[j].path = P_STUDY_TYPE
          /\ CompiledReport[j].status = "DISAGREE"
          /\ CompiledReport[j].explanation = "review 2 of pass 2"


\* The value the driver decided for the path of a reviewed entry.
DriverValue(path) == LatestReview(path).driver_value

\* C25: for a path that has a review, final_value is the driver's value
\* when the status is AGREE; when it is DISAGREE or UNSURE it is the
\* review's proposed_value if that is not null, and the driver's original
\* value otherwise.
C25_FinalValueByStatus ==
    Compiled =>
        \A j \in DOMAIN CompiledReport :
            PassesWith(CompiledReport[j].path) # {} =>
                LET latest == LatestReview(CompiledReport[j].path)
                IN  CompiledReport[j].final_value =
                        IF latest.status = "AGREE" \/ IsNone(latest.proposed_value)
                        THEN DriverValue(CompiledReport[j].path)
                        ELSE latest.proposed_value


\* ------------------------------------------------------------------------
\* Properties of the thread pool
\* ------------------------------------------------------------------------
InPool == fn = "pool"

\* What the four threads returned, in task order.
RECURSIVE PassesUpTo(_)
PassesUpTo(n) == IF n = 0 THEN <<>> ELSE PassesUpTo(n - 1) \o thr[n].passes
ResultsUpTo(n) == [t \in 1..n |-> thr[t].result]
PatchesUpTo(n) == [t \in 1..n |-> thr[t].result.patch]

\* Task 5 has contributed to the lists.
Task5Listed == Len(all_task_results) > NumParallelTasks

\* C26: while the threads of tasks 1-4 finish in any order, the lists of
\* task results, patches and verifier passes hold what the threads
\* returned in the order task 1, 2, 3, 4, then task 5; the final object is
\* built from these lists alone, its passes in that order, so it is the
\* same whichever thread finished first.  A thread writes its own state
\* only.
C26_ListsInTaskOrder ==
    InPool =>
        /\ all_task_results = ResultsUpTo(collected)
                \o (IF Task5Listed THEN <<task5.result>> ELSE <<>>)
        /\ all_patches = PatchesUpTo(collected)
                \o (IF Task5Listed THEN <<task5.result.patch>> ELSE <<>>)
        /\ all_verifier_passes = PassesUpTo(collected)
                \o (IF Task5Listed THEN task5.passes ELSE <<>>)
        /\ Built =>
              /\ collected = NumParallelTasks
              /\ Passes = all_verifier_passes
              /\ \E paper_id_hint \in PaperIdHints, found_pmid \in PubmedAnswers :
                    /\ paper_id_hint.doi = Get(final_obj.paper_id, "doi")
                    /\ \E working \in {MergeWorking(all_patches, all_verifier_passes,
                                                    paper_id_hint, found_pmid)} :
                         final_obj = build_final_object(working, all_verifier_passes,
                                                        decisions_non_null)

\* Task 4 finished first and the thread of task 1 last, with a patch of the
\* verifier of task 1 and one of task 4: the passes of the final object
\* are those of task 1, then those of task 4.
C26_Witness ==
    /\ InPool
    /\ Built
    /\ ret = <<4>>
    /\ Len(Passes) >= 2
    /\ Passes[1] = thr[1].passes[1]
    /\ Passes[1].suggested_patch = M([study_type |-> S("cohort")])
    /\ Passes[Len(Passes)].suggested_patch # EmptyMap
    /\ final_obj.study_type = S("cohort")


\* ------------------------------------------------------------------------
\* Properties of _call_with_retries
\* ------------------------------------------------------------------------
Retrying == fn = "_call_with_retries"
RetryDone == Retrying /\ ret # <<>>

\* The pause before attempt i + 1 lies between the backoff and the backoff
\* plus the largest jitter: 2 s for i = 1 and 4 s for i = 2.
PauseInRange(i) ==
    /\ i = 1 => args.slept[i] \in (2 * BackoffScale)..(2 * BackoffScale + 25)
    /\ i = 2 => args.slept[i] \in (4 * BackoffScale)..(4 * BackoffScale + 25)
    /\ i > 2 => FALSE

\* One pause lies before every call but the first, and none follows the
\* last call.
RetrySafe ==
    Retrying =>
        /\ args.calls <= 3
        /\ Len(args.slept) = (IF args.at = "call" THEN args.calls ELSE args.calls - 1)
        /\ \A i \in DOMAIN args.slept : PauseInRange(i)
        /\ RetryDone =>
              /\ Len(args.slept) = args.calls - 1
              /\ ret[1].t = "return" => args.calls \in 1..3
              /\ ret[1].t = "RuntimeError" =>
                    /\ args.calls = 3
                    /\ ret[1].cause = args.last_exc
                    /\ args.last_exc \in CallExceptions
              /\ ret[1].t \in {"return", "RuntimeError"}

\* Once fn() has returned, nothing more is called or slept.
NoStepAfterDone == [][RetryDone => UNCHANGED vars]_vars

\* C27: _call_with_retries always terminates; it calls fn at most
\* LLM_MAX_RETRIES (3) times, returns the first successful result without a
\* further attempt, pauses between consecutive attempts for 2 s and then 4 s
\* plus a jitter of at most 0.25 s, does not pause after the last failed
\* attempt, and raises a RuntimeError chained to the last exception when
\* every attempt failed.
C27_RetriesAreBoundedAndEnd ==
    /\ []RetrySafe
    /\ NoStepAfterDone
    /\ <>RetryDone

\* All three attempts failed: two pauses were slept, of 2 s and 4 s plus
\* the largest jitter, and the RuntimeError carries the last exception.
C27_Witness ==
    /\ RetryDone
    /\ ret[1] = [t |-> "RuntimeError", cause |-> "JSONDecodeError"]
    /\ args.calls = 3
    /\ args.slept = <<225, 425>>

\* The second attempt returned: one pause, no third call.
C27_WitnessSecondAttempt ==
    /\ RetryDone
    /\ ret[1].t = "return"
    /\ args.calls = 2
    /\ Len(args.slept) = 1


\* The page hints of the chunk of call k, and the pages of the document
\* that the extractor's view labels with one of them.
HintsOf(k) == page_numbers(ret[k].chunk)
LabelledPages(k) == {p \in Range(args.full_pages) : PageLabel(p) \in HintsOf(k)}

\* C28: a page hint is 1-based: for a chunk whose decisions carry page
\* hints the verifier view is built from exactly the pages labelled
\* "PAGE n" in the extractor's view for the hints n; all pages are used
\* only when no hinted page exists.
C28_HintSelectsLabelledPage ==
    Verifying =>
        \A k \in DOMAIN ret :
            Range(ret[k].verifier_pages) =
                IF LabelledPages(k) # {} THEN LabelledPages(k)
                ELSE Range(args.full_pages)


\* ------------------------------------------------------------------------
\* Properties of the PMID of the final object
\* ------------------------------------------------------------------------
Identified == fn = "run_pipeline_for_pdf (merge)" /\ ret # <<>>
FinalPmid == Get(ret[1].paper_id, "pmid")
SheetPmid(sheet) == Get(Get(ret[1].record.kv["sheets"], sheet), "pmid")

\* C29: with the PubMed lookup enabled, paper_id.pmid of the final object
\* is the identifier the lookup returned or null, never a PMID of the
\* extractor or of a verifier's suggested patch, and when it is not null
\* the pmid fields of included_articles and level_of_evidence equal it.
C29_PmidComesFromLookup ==
    (ENABLE_PUBMED_LOOKUP /\ Identified) =>
        /\ FinalPmid \in {Null, args.found_pmid}
        /\ ~IsNone(FinalPmid) =>
              /\ SheetPmid("included_articles") = FinalPmid
              /\ SheetPmid("level_of_evidence") = FinalPmid

====
